---- MODULE Spec2Model ----
(***************************************************************************)
(* CampusConnect AI: the five LangGraph pipelines (matching, safety,       *)
(* onboarding, events/communities, chat assistant) as one state machine.   *)
(*                                                                         *)
(* A run is: a pipeline, the stage about to execute (pc), the state dict   *)
(* threaded through the stages (st), the log of calls made to external     *)
(* collaborators (calls), the exception that left the run, if any (exc),   *)
(* and the input state the run was started with (input).  Each stage of    *)
(* the source is one operator  node_...(state, ...)                        *)
(* returning the new state, the external calls it made and the exception   *)
(* it let escape; one action per stage applies it.  The outcomes of the    *)
(* external collaborators (Firestore, the LLM chain, the REST backend) and *)
(* the process configuration a stage reads are inputs of the stage, drawn  *)
(* from small sets.                                                        *)
(*                                                                         *)
(* Python dicts are functions whose DOMAIN is the set of keys present.     *)
(* Floats in [0,1] (confidences) are integers in hundredths.               *)
(* Coordinates: every modelled point lies on the great circle made of the  *)
(* meridians lng = 0 and lng = 180 and its latitude is given as arc length *)
(* in metres, so that the great-circle distance of two points is an arc of *)
(* that circle.                                                            *)
(*                                                                         *)
(* Spec is one graph.invoke on a freshly built graph.  ServerSpec puts the *)
(* entry point POST /run-graph around it: the request's graph name and     *)
(* Authorization header are checked first and the run's outcome becomes    *)
(* the HTTP response.  ToolsSpec applies the functions of tools/ to        *)
(* arguments of their own.                                                 *)
(***************************************************************************)
EXTENDS Integers, Sequences, FiniteSets, TLC

\* ran: the stages the executor has invoked in the current run, in order
\* _ctx: the _ctx attribute of the ChatAssistantGraph object the run uses,
\*       <<>> for None and <<c>> for the ChatContext c
\* AI_SERVICE_TOKEN: config.AI_SERVICE_TOKEN of the serving process
\* authorization: the Authorization header of the request as the fragments
\*                of its text, <<>> if the request has none
\* response: <<>> until the entry point has answered, then <<r>> with
\*           r.status_code and r.content
VARIABLES pipeline, pc, st, calls, exc, input, ran, _ctx,
          AI_SERVICE_TOKEN, authorization, response

vars == <<pipeline, pc, st, calls, exc, input, ran, _ctx,
          AI_SERVICE_TOKEN, authorization, response>>

\* what only the entry point of the server reads and writes
server == <<AI_SERVICE_TOKEN, authorization, response>>

(***************************************************************************)
(* Bounds of the model.                                                    *)
(***************************************************************************)
\* longest candidate list enumerated exhaustively from the profile pool
MaxCands == 2
\* most fragments an enumerated content string is made of
MaxFrags == 2
\* most flags an input state of the safety pipeline carries
MaxInputFlags == 1

(***************************************************************************)
(* Dict helpers.                                                           *)
(***************************************************************************)
Has(d, k) == k \in DOMAIN d

Get(d, k, default) == IF k \in DOMAIN d THEN d[k] ELSE default

\* {**state, **updates}
_with_state(state, updates) == updates @@ state

\* state.get("error") is truthy
HasError(state) == Has(state, "error") /\ state["error"] # ""

Range(s) == {s[i] : i \in DOMAIN s}

\* a min that gives back its first argument: no cap is applied
Min_first(a, b) == a

Min(a, b) == IF a <= b THEN a ELSE b

Max(a, b) == IF a >= b THEN a ELSE b

Abs(a) == IF a >= 0 THEN a ELSE 0 - a

\* what a stage hands back: the new state, the external calls it made,
\* and the exception that escaped it ("none" when it returned)
Return(state, io) == [st |-> state, io |-> io, exc |-> "none"]

Raise(state, io, e) == [st |-> state, io |-> io, exc |-> e]

Call(op, arg, ok) == [op |-> op, arg |-> arg, ok |-> ok]

\* {}
EmptyDict == <<>>

\* an input state may already carry an error
InputErrorChoices == {"absent", "preset"}

OptionalError(choice) ==
    IF choice = "preset" THEN [error |-> "error given in the input"]
    ELSE EmptyDict

StoreOps == {"get_user_profile", "get_all_profiles_in_campus",
             "get_user_connections", "get_recent_matches", "save_match",
             "get_all_events", "get_all_groups", "profiles.set"}

AugOps == {"chain.invoke"}

(***************************************************************************)
(* Augmentation gateway: provider selection.                               *)
(***************************************************************************)
Configs == [PERPLEXITY_API_KEY : BOOLEAN, OPENAI_API_KEY : BOOLEAN]

\* a selection that prefers the OpenAI credential under "auto"
get_llm_openai_first(provider, config) ==
    IF provider = "auto"
    THEN IF config.OPENAI_API_KEY THEN "openai"
         ELSE IF config.PERPLEXITY_API_KEY THEN "perplexity"
         ELSE "ValueError"
    ELSE IF provider = "perplexity" /\ config.PERPLEXITY_API_KEY
    THEN "perplexity"
    ELSE IF provider = "openai" /\ config.OPENAI_API_KEY THEN "openai"
    ELSE "ValueError"

\* get_llm: the client chosen, or "ValueError"
get_llm(provider, config) ==
    IF provider = "auto"
    THEN IF config.PERPLEXITY_API_KEY THEN "perplexity"
         ELSE IF config.OPENAI_API_KEY THEN "openai"
         ELSE "ValueError"
    ELSE IF provider = "perplexity"
    THEN IF ~config.PERPLEXITY_API_KEY THEN "ValueError" ELSE "perplexity"
    ELSE IF provider = "openai"
    THEN IF ~config.OPENAI_API_KEY THEN "ValueError" ELSE "openai"
    ELSE "ValueError"

(***************************************************************************)
(* Geo utility and deterministic scoring engine.                           *)
(***************************************************************************)
\* a quarter of the great circle of radius EARTH_RADIUS_METERS, in metres:
\* the arc from the equator to a pole
QuarterMeridian == 10007543

\* points lie on the great circle made of the meridians of longitude 0 and
\* 180; across the two meridians the shorter arc goes over the nearer pole
haversine_meters(lat1, lng1, lat2, lng2) ==
    IF lng1 = lng2 THEN Abs(lat2 - lat1)
    ELSE 2 * QuarterMeridian - Abs(lat1 + lat2)

\* the latitudes, in arc metres, whose antipodal pair gives the float a of
\* the formula a value above 1: 87.5 degrees does, 45 degrees and the
\* equator do not
RoundsAboveOne == {9729556}

\* sqrt(1 - a) raises ValueError (math domain error) when a is above 1,
\* which rounding makes it for some antipodal pairs
math_domain_error(lat1, lng1, lat2, lng2) ==
    lng1 # lng2 /\ lat1 + lat2 = 0 /\ Abs(lat1) \in RoundsAboveOne

\* calculate_base_compatibility_score; None for an absent major
None == "None"

\* stands for a year that is not an int, such as the text "2"
YearAsText == -2

\* isinstance(record.get("year"), int)
year_is_int(record) == Has(record, "year") /\ record["year"] # YearAsText

\* the score with the interest bonus left uncapped
calculate_base_compatibility_score_uncapped(user, candidate) ==
    LET common == Cardinality(Get(user, "interests", {})
                              \cap Get(candidate, "interests", {}))
        s1 == 40 + common * 3
        s2 == IF Get(user, "major", None) = Get(candidate, "major", None)
              THEN s1 + 15 ELSE s1
        s3 == IF year_is_int(user) /\ year_is_int(candidate)
                 /\ Abs(user["year"] - candidate["year"]) <= 1
              THEN s2 + 10 ELSE s2
        s4 == IF Get(user, "bio", "") # "" /\ Get(candidate, "bio", "") # ""
              THEN s3 + 5 ELSE s3
    IN  Min(s4, 100)

calculate_base_compatibility_score(user, candidate) ==
    LET common == Cardinality(Get(user, "interests", {})
                              \cap Get(candidate, "interests", {}))
        s1 == 40 + Min(common * 3, 30)
        s2 == IF Get(user, "major", None) = Get(candidate, "major", None)
              THEN s1 + 15 ELSE s1
        s3 == IF year_is_int(user) /\ year_is_int(candidate)
                 /\ Abs(user["year"] - candidate["year"]) <= 1
              THEN s2 + 10 ELSE s2
        s4 == IF Get(user, "bio", "") # "" /\ Get(candidate, "bio", "") # ""
              THEN s3 + 5 ELSE s3
    IN  Min(s4, 100)

\* calculate_distance_score: the multiplier as a fraction num/den
One == [num |-> 1, den |-> 1]

calculate_distance_score(user_lat, user_lng, candidate_lat, candidate_lng, max_distance_m) ==
    LET distance == haversine_meters(user_lat, user_lng,
                                     candidate_lat, candidate_lng)
    IN  IF distance <= max_distance_m THEN One
        ELSE \* 1.0 - (distance - max) / max, floored at 0
             [num |-> Max(2 * max_distance_m - distance, 0),
              den |-> max_distance_m]

\* int(base_score * distance_mult)
ScaledInt(base, mult) == (base * mult.num) \div mult.den

HasLocation(p) == Has(p, "locationLat") /\ Has(p, "locationLng")

\* the loop body without the identity check
KeptByBasicFilter_any_uid(candidate, user, radius_meters, min_score_threshold) ==
    /\ ~ ( /\ HasLocation(user)
           /\ HasLocation(candidate)
           /\ haversine_meters(user["locationLat"], user["locationLng"],
                               candidate["locationLat"],
                               candidate["locationLng"]) > radius_meters )
    /\ calculate_base_compatibility_score(user, candidate)
          >= min_score_threshold

\* one iteration of the loop of filter_candidates_basic: is the candidate kept
KeptByBasicFilter(candidate, user, radius_meters, min_score_threshold) ==
    /\ Get(candidate, "uid", None) # Get(user, "uid", None)
    /\ ~ ( /\ HasLocation(user)
           /\ HasLocation(candidate)
           /\ haversine_meters(user["locationLat"], user["locationLng"],
                               candidate["locationLat"],
                               candidate["locationLng"]) > radius_meters )
    /\ calculate_base_compatibility_score(user, candidate)
          >= min_score_threshold

filter_candidates_basic(candidates, user, radius_meters, min_score_threshold) ==
    SelectSeq(candidates,
              LAMBDA c : KeptByBasicFilter(c, user, radius_meters,
                                           min_score_threshold))

(***************************************************************************)
(* sorted(items, key=lambda x: x.get(k, 0), reverse=True): insertion of    *)
(* each item behind the items whose key is at least its own.               *)
(***************************************************************************)
\* the insertion ahead of the items of equal key
InsertDesc_unstable(sorted, x, k) ==
    LET p == Cardinality({i \in DOMAIN sorted :
                             Get(sorted[i], k, 0) > Get(x, k, 0)})
    IN  SubSeq(sorted, 1, p) \o <<x>> \o SubSeq(sorted, p + 1, Len(sorted))

InsertDesc(sorted, x, k) ==
    LET p == Cardinality({i \in DOMAIN sorted :
                             Get(sorted[i], k, 0) >= Get(x, k, 0)})
    IN  SubSeq(sorted, 1, p) \o <<x>> \o SubSeq(sorted, p + 1, Len(sorted))

RECURSIVE sorted_reverse(_, _)
sorted_reverse(items, k) ==
    IF items = <<>> THEN <<>>
    ELSE InsertDesc(sorted_reverse(SubSeq(items, 1, Len(items) - 1), k),
                    items[Len(items)], k)

\* the slice [:n]
Head_n(s, n) == SubSeq(s, 1, Min(n, Len(s)))

(***************************************************************************)
(* Matching pipeline: data the collaborators can return.                   *)
(***************************************************************************)
UserId == "u0"

TenantId == "t1"

\* profiles/{user_id} of the requesting user
SubjectProfiles ==
    { [uid |-> "u0", campusId |-> "c1", name |-> "Ann", major |-> "CS",
       year |-> 2, interests |-> {"ai", "chess"}, bio |-> "hi",
       locationLat |-> 0, locationLng |-> 0],
      [uid |-> "u0", campusId |-> "c1", name |-> "Ann", major |-> "CS",
       year |-> 2, interests |-> {"ai", "chess"}] }

\* profiles of the campus, the requesting user's own among them
ProfilePool ==
    { [uid |-> "a", name |-> "A", major |-> "CS", year |-> 2,
       interests |-> {"ai", "chess"}, bio |-> "x",
       locationLat |-> 1000, locationLng |-> 0],
      [uid |-> "b", name |-> "B", major |-> "CS", year |-> 5,
       interests |-> {"ai"}, bio |-> "y",
       locationLat |-> 300000, locationLng |-> 0],
      [uid |-> "c", name |-> "C", major |-> "Math", year |-> 3,
       interests |-> {"ai"}, bio |-> "z"],
      [uid |-> "d", major |-> "Math", year |-> 6, interests |-> {}],
      [uid |-> "u0", name |-> "Ann", major |-> "CS", year |-> 2,
       interests |-> {"ai", "chess"}, bio |-> "hi",
       locationLat |-> 0, locationLng |-> 0] }

\* sequences without repetition of at most n profiles of the pool
RECURSIVE ListsUpTo(_)
ListsUpTo(n) ==
    IF n = 0 THEN {<<>>}
    ELSE LET shorter == ListsUpTo(n - 1)
         IN  shorter \cup
             { Append(l, p) : l \in {x \in shorter : Len(x) = n - 1},
                              p \in ProfilePool }

NoRepeat(l) == \A i, j \in DOMAIN l : i # j => l[i].uid # l[j].uid

\* a campus larger than the number of matches returned: years and majors
\* alternate so that equal scores recur along the list
LongLen == 12

LongList ==
    [i \in 1..LongLen |->
        [uid |-> ToString(i),
         major |-> IF i % 2 = 0 THEN "CS" ELSE "Math",
         year |-> 2 + 2 * (i % 3),
         interests |-> IF i % 4 = 0 THEN {"ai"} ELSE {}]]

CandidateLists == {l \in ListsUpTo(MaxCands) : NoRepeat(l)} \cup {LongList}

PreferenceChoices == {"absent", "given", "malformed", "fractional"}

GivenPreferences == [radiusMeters |-> 1000, minScore |-> 50]

\* stands for a value of the request's JSON that int() rejects with a
\* ValueError, such as the text "far"
NotANumber == -1

MalformedPreferences == [radiusMeters |-> NotANumber, minScore |-> 50]

\* stands for the number 40.5 of the request's JSON
FortyAndAHalf == -3

FractionalPreferences == [radiusMeters |-> 1000, minScore |-> FortyAndAHalf]

\* int(value) where it returns: the fractional part is dropped
int(value) == IF value = FortyAndAHalf THEN 40 ELSE value

\* does int(value) raise
int_raises(value) == value = NotANumber

\* which of the per-match calls of one stage fail
FailChoices == {"none", "all", "odd"}

Fails(choice, i) ==
    \/ choice = "all"
    \/ choice = "odd" /\ i % 2 = 1

\* what the reasoning chain returns when it returns
MatchingAugResults ==
    { [why_compatible |-> "llm why", conversation_starter |-> "llm starter",
       compatibility_score |-> 150],
      [why_compatible |-> "llm why"] }

(***************************************************************************)
(* Matching pipeline: stages.                                              *)
(***************************************************************************)
Matching_node_fetch_user_profile(state, outcome, profile) ==
    LET io == <<Call("get_user_profile", state["user_id"],
                     outcome # "unavailable")>>
    IN  IF outcome = "unavailable"
        THEN Return(_with_state(state,
                 [error |-> "Firestore unavailable. Returning empty matches."]),
                 io)
        ELSE IF outcome = "none"
        THEN Return(_with_state(state,
                 [error |-> "User profile not found: u0"]), io)
        ELSE Return(_with_state(state,
                 [user_profile |-> profile,
                  campus_id |-> Get(profile, "campusId", "")]), io)

\* the stage without its error guard
Matching_node_query_candidates_unguarded(state, ok, candidates) ==
    LET io == <<Call("get_all_profiles_in_campus",
                     Get(state, "campus_id", ""), ok)>>
    IN  IF ok
        THEN Return(_with_state(state, [candidates |-> candidates]), io)
        ELSE Return(_with_state(state,
                [error |-> "Failed to query candidates. Returning empty matches.",
                 candidates |-> <<>>]), io)

Matching_node_query_candidates(state, ok, candidates) ==
    IF HasError(state) THEN Return(state, <<>>)
    ELSE LET io == <<Call("get_all_profiles_in_campus",
                          Get(state, "campus_id", ""), ok)>>
         IN  IF ok
             THEN Return(_with_state(state, [candidates |-> candidates]), io)
             ELSE Return(_with_state(state,
                     [error |-> "Failed to query candidates. Returning empty matches.",
                      candidates |-> <<>>]), io)

Radius(state) ==
    int(Get(Get(state, "preferences", EmptyDict), "radiusMeters", 200000))

MinScore(state) ==
    int(Get(Get(state, "preferences", EmptyDict), "minScore", 30))

\* conn_ok, rec_ok: did the lookup succeed; connected, recent: the uids the
\* store holds for the user (accepted, pending and blocked together;
\* matchedUserId of the last 30 days), which a lookup that succeeds returns
Matching_node_filter_candidates(state, conn_ok, connected, rec_ok, recent) ==
    IF HasError(state) THEN Return(state, <<>>)
    ELSE LET io == <<[stored |-> connected]
                     @@ Call("get_user_connections", state["user_id"], conn_ok),
                     [stored |-> recent]
                     @@ Call("get_recent_matches", state["user_id"], rec_ok)>>
             excluded_uids == (IF conn_ok THEN connected ELSE {})
                              \cup (IF rec_ok THEN recent ELSE {})
             candidates ==
                 SelectSeq(Get(state, "candidates", <<>>),
                           LAMBDA c : /\ c.uid \notin excluded_uids
                                      /\ c.uid # state["user_id"])
             filtered ==
                 filter_candidates_basic(candidates,
                     Get(state, "user_profile", EmptyDict),
                     Radius(state), MinScore(state))
         IN  IF int_raises(Radius(state)) \/ int_raises(MinScore(state))
             THEN Return(_with_state(state,
                      [error |-> "Filtering failed. Returning empty matches.",
                       filtered_candidates |-> <<>>]), io)
             ELSE Return(_with_state(state,
                      [filtered_candidates |-> filtered]), io)

ScoreOne(user_profile, candidate, radius) ==
    LET base_score == calculate_base_compatibility_score(user_profile,
                                                         candidate)
        distance_mult ==
            IF HasLocation(user_profile) /\ HasLocation(candidate)
            THEN calculate_distance_score(user_profile["locationLat"],
                     user_profile["locationLng"], candidate["locationLat"],
                     candidate["locationLng"], radius)
            ELSE One
    IN  [deterministic_score |-> ScaledInt(base_score, distance_mult),
         base_score |-> base_score,
         distance_multiplier |-> distance_mult] @@ candidate

Matching_node_score_matches(state) ==
    IF HasError(state) THEN Return(state, <<>>)
    ELSE LET filtered == Get(state, "filtered_candidates", <<>>)
             scored == [i \in DOMAIN filtered |->
                           ScoreOne(Get(state, "user_profile", EmptyDict),
                                    filtered[i], Radius(state))]
         IN  IF int_raises(Radius(state))
             THEN Return(_with_state(state,
                      [error |-> "Scoring failed. Returning empty matches.",
                       scored_matches |-> <<>>]), <<>>)
             ELSE Return(_with_state(state, [scored_matches |-> scored]),
                         <<>>)

TopN == 10

Matching_node_rank_top_matches(state) ==
    IF HasError(state) THEN Return(state, <<>>)
    ELSE LET sorted_matches ==
                 sorted_reverse(Get(state, "scored_matches", <<>>),
                                "deterministic_score")
         IN  Return(_with_state(state,
                        [top_matches |-> Head_n(sorted_matches, TopN)]), <<>>)

\* the fallback that forgets the deterministic score
MatchingFallback_noscore(match) ==
    [why_compatible |-> "Based on shared interests and proximity.",
     conversation_starter |-> "Hey! Want to connect on CampusConnect?",
     adjusted_score |-> 0]

MatchingFallback(match) ==
    [why_compatible |-> "Based on shared interests and proximity.",
     conversation_starter |-> "Hey! Want to connect on CampusConnect?",
     adjusted_score |-> Get(match, "deterministic_score", 0)]

MatchingReasoningOf(match, result) ==
    [why_compatible |-> Get(result, "why_compatible", ""),
     conversation_starter |-> Get(result, "conversation_starter", ""),
     adjusted_score |-> Get(result, "compatibility_score",
                            Get(match, "deterministic_score", 0))]

\* the last index of top at which uid u stands
LastIndexOf(top, u) ==
    CHOOSE i \in DOMAIN top :
        top[i].uid = u /\ \A j \in DOMAIN top : top[j].uid = u => j <= i

Matching_node_generate_reasoning(state, config, fail, result) ==
    IF HasError(state) \/ Get(state, "top_matches", <<>>) = <<>>
    THEN Return(_with_state(state, [llm_reasoning |-> EmptyDict]), <<>>)
    ELSE IF get_llm("auto", config) = "ValueError"
    THEN Raise(state, <<>>, "ValueError")
    ELSE LET top == state["top_matches"]
             io == [i \in DOMAIN top |->
                       Call("chain.invoke", top[i].uid, ~Fails(fail, i))]
             reasoning ==
                 [u \in {top[i].uid : i \in DOMAIN top} |->
                     LET i == LastIndexOf(top, u)
                     IN  IF Fails(fail, i) THEN MatchingFallback(top[i])
                         ELSE MatchingReasoningOf(top[i], result)]
         IN  Return(_with_state(state, [llm_reasoning |-> reasoning]), io)

DisplayKeys == {"name", "major", "year", "bio"}

FinalMatch(match, reasoning) ==
    LET match_id == Get(match, "uid", "")
        match_reasoning == Get(reasoning, match_id, EmptyDict)
    IN  [id |-> match_id,
         interests |-> Get(match, "interests", {}),
         score |-> Get(match_reasoning, "adjusted_score",
                       Get(match, "deterministic_score", 0)),
         why_compatible |-> Get(match_reasoning, "why_compatible", ""),
         conversation_starter |->
             Get(match_reasoning, "conversation_starter", "")]
        @@ [k \in DisplayKeys \cap DOMAIN match |-> match[k]]

\* the error branch that resets the error once the response is shaped
MatchingErrorResponse_clears(state) ==
    Return(_with_state(state,
        [error |-> "",
         final_matches |-> <<>>,
         response_metadata |->
             [success |-> FALSE,
              error |-> state["error"],
              reasoning_applied |-> FALSE,
              total_candidates |-> Len(Get(state, "candidates", <<>>)),
              filtered_count |-> 0]]), <<>>)

\* node_finalize_response, the branch taken when error is set
MatchingErrorResponse(state) ==
    Return(_with_state(state,
        [final_matches |-> <<>>,
         response_metadata |->
             [success |-> FALSE,
              error |-> state["error"],
              reasoning_applied |-> FALSE,
              total_candidates |-> Len(Get(state, "candidates", <<>>)),
              filtered_count |-> 0]]), <<>>)

\* the success branch with save_match called outside a try: the first
\* failing write leaves the stage as FirestoreUnavailableError
MatchingSuccessResponse_propagates(state, save_fail) ==
    LET top == Get(state, "top_matches", <<>>)
        failing == {i \in DOMAIN top : Fails(save_fail, i)}
        first == IF failing = {} THEN Len(top)
                 ELSE CHOOSE i \in failing : \A j \in failing : i <= j
        io == [i \in 1..first |->
                  Call("save_match", Get(top[i], "uid", ""),
                       ~Fails(save_fail, i))]
    IN  IF failing = {}
        THEN Return(_with_state(state,
                 [final_matches |->
                      [i \in DOMAIN top |->
                          FinalMatch(top[i],
                              Get(state, "llm_reasoning", EmptyDict))],
                  response_metadata |-> [success |-> TRUE]]), io)
        ELSE Raise(state, io, "FirestoreUnavailableError")

\* node_finalize_response, the branch taken otherwise; the None of
\* response_metadata.error is written ""
MatchingSuccessResponse(state, save_fail) ==
    LET top == Get(state, "top_matches", <<>>)
        reasoning == Get(state, "llm_reasoning", EmptyDict)
        final_matches == [i \in DOMAIN top |-> FinalMatch(top[i], reasoning)]
        io == [i \in DOMAIN top |->
                  Call("save_match", Get(top[i], "uid", ""),
                       ~Fails(save_fail, i))]
        metadata ==
            [success |-> TRUE,
             error |-> "",
             reasoning_applied |-> reasoning # EmptyDict,
             total_candidates |-> Len(Get(state, "candidates", <<>>)),
             filtered_count |-> Len(Get(state, "filtered_candidates", <<>>))]
    IN  Return(_with_state(state,
            [final_matches |-> final_matches,
             response_metadata |-> metadata]), io)

\* the stage without its error branch
Matching_node_finalize_response_unguarded(state, save_fail) ==
    MatchingSuccessResponse(state, save_fail)

Matching_node_finalize_response(state, save_fail) ==
    IF HasError(state) THEN MatchingErrorResponse(state)
    ELSE MatchingSuccessResponse(state, save_fail)

(***************************************************************************)
(* Safety pipeline: content as a sequence of characters.                   *)
(***************************************************************************)
\* str.lower() on one character
LowerOf ==
    [A |-> "a", B |-> "b", C |-> "c", D |-> "d", E |-> "e", F |-> "f",
     G |-> "g", H |-> "h", I |-> "i", J |-> "j", K |-> "k", L |-> "l",
     M |-> "m", N |-> "n", O |-> "o", P |-> "p", Q |-> "q", R |-> "r",
     S |-> "s", T |-> "t", U |-> "u", V |-> "v", W |-> "w", X |-> "x",
     Y |-> "y", Z |-> "z"]

lower(content) ==
    [i \in DOMAIN content |->
        IF content[i] \in DOMAIN LowerOf THEN LowerOf[content[i]]
        ELSE content[i]]

\* word occurs in content at position i
OccursAt(word, content, i) ==
    /\ i >= 1
    /\ i + Len(word) - 1 <= Len(content)
    /\ SubSeq(content, i, i + Len(word) - 1) = word

\* word in content
Contains(content, word) ==
    \E i \in 1..(Len(content) + 1) : OccursAt(word, content, i)

\* re.search(r"first.*second", content): "." matches no line break
SearchDotStar(first, second, content) ==
    \E i, j \in 1..(Len(content) + 1) :
        /\ OccursAt(first, content, i)
        /\ j >= i + Len(first)
        /\ OccursAt(second, content, j)
        /\ \A k \in (i + Len(first))..(j - 1) : content[k] # "\n"

SPAM_KEYWORDS ==
    << <<"c","l","i","c","k"," ","h","e","r","e">>,
       <<"b","u","y"," ","n","o","w">>,
       <<"l","i","m","i","t","e","d"," ","o","f","f","e","r">> >>

BANNED_WORDS ==
    << <<"s","l","u","r","1">>, <<"s","l","u","r","2">> >>

\* verify.*account and confirm.*password
PHISHING_PATTERNS ==
    << [first |-> <<"v","e","r","i","f","y">>,
        second |-> <<"a","c","c","o","u","n","t">>],
       [first |-> <<"c","o","n","f","i","r","m">>,
        second |-> <<"p","a","s","s","w","o","r","d">>] >>

\* the pieces the enumerated contents are made of
Fragments ==
    { <<"s","l","u","r","1">>,
      <<"S","L","u","R","2">>,
      <<"C","l","i","c","k"," ","h","e","r","e">>,
      <<"v","e","r","i","f","y">>,
      <<"a","c","c","o","u","n","t">>,
      <<"\n">>,
      <<"h","i">> }

RECURSIVE ContentsOf(_)
ContentsOf(n) ==
    IF n = 0 THEN {<<>>}
    ELSE LET shorter == ContentsOf(n - 1)
         IN  shorter \cup {c \o f : c \in shorter, f \in Fragments}

Contents == ContentsOf(MaxFrags)

\* flags an input state may already carry
InputFlagPool ==
    { [flag |-> "spam", confidence |-> 72, rule |-> "input"],
      [flag |-> "explicit", confidence |-> 60, rule |-> "input"],
      [flag |-> "other", rule |-> "input"] }

RECURSIVE FlagListsUpTo(_)
FlagListsUpTo(n) ==
    IF n = 0 THEN {<<>>}
    ELSE LET shorter == FlagListsUpTo(n - 1)
         IN  shorter \cup {Append(l, f) : l \in shorter, f \in InputFlagPool}

\* what the classification chain returns when it returns
SafetyAugResults ==
    { [flags |-> <<>>, confidence |-> 90, action |-> "allow",
       is_safe |-> TRUE],
      [flags |-> <<"harassment">>, confidence |-> 90, action |-> "review",
       is_safe |-> FALSE],
      [flags |-> <<"explicit">>, confidence |-> 60, action |-> "allow",
       is_safe |-> TRUE],
      [flags |-> <<>>, confidence |-> 30, action |-> "reject",
       is_safe |-> FALSE],
      [flags |-> <<"spam">>, confidence |-> 80] }

(***************************************************************************)
(* Safety pipeline: stages.                                                *)
(***************************************************************************)
\* the flags a list of rules appends, one per rule that fires, in order
\* (fires[n] tells whether rule n matches the content)
RECURSIVE FlagsOfRules(_, _)
FlagsOfRules(fires, flag) ==
    IF fires = <<>> THEN <<>>
    ELSE FlagsOfRules(SubSeq(fires, 1, Len(fires) - 1), flag)
         \o (IF fires[Len(fires)] THEN <<flag>> ELSE <<>>)

SpamFlag == [flag |-> "spam", confidence |-> 80, rule |-> "keyword_match"]

PhishingFlag ==
    [flag |-> "phishing", confidence |-> 90, rule |-> "regex_pattern"]

ExplicitFlag ==
    [flag |-> "explicit", confidence |-> 95, rule |-> "banned_word"]

Safety_node_detect_spam_patterns(state) ==
    LET content == lower(Get(state, "content", <<>>))
        flags == Get(state, "flags", <<>>)
                 \o FlagsOfRules(
                        [n \in DOMAIN SPAM_KEYWORDS |->
                            Contains(content, SPAM_KEYWORDS[n])],
                        SpamFlag)
                 \o FlagsOfRules(
                        [n \in DOMAIN PHISHING_PATTERNS |->
                            SearchDotStar(PHISHING_PATTERNS[n].first,
                                PHISHING_PATTERNS[n].second, content)],
                        PhishingFlag)
    IN  Return(_with_state(state, [flags |-> flags]), <<>>)

\* the stage starting its flags list afresh
Safety_node_check_explicit_content_replaces(state) ==
    LET content == lower(Get(state, "content", <<>>))
        flags == FlagsOfRules(
                     [n \in DOMAIN BANNED_WORDS |->
                         Contains(content, BANNED_WORDS[n])],
                     ExplicitFlag)
    IN  Return(_with_state(state, [flags |-> flags]), <<>>)

Safety_node_check_explicit_content(state) ==
    LET content == lower(Get(state, "content", <<>>))
        flags == Get(state, "flags", <<>>)
                 \o FlagsOfRules(
                        [n \in DOMAIN BANNED_WORDS |->
                            Contains(content, BANNED_WORDS[n])],
                        ExplicitFlag)
    IN  Return(_with_state(state, [flags |-> flags]), <<>>)

\* max([f.get("confidence", 0) for f in flags], default=0)
MaxConfidence(flags) ==
    IF flags = <<>> THEN 0
    ELSE CHOOSE m \in {Get(flags[i], "confidence", 0) : i \in DOMAIN flags} :
             \A i \in DOMAIN flags : Get(flags[i], "confidence", 0) <= m

Safety_node_classify_uncertain(state, config, ok, result) ==
    LET flags == Get(state, "flags", <<>>)
        max_conf == MaxConfidence(flags)
    IN  IF flags # <<>> /\ max_conf >= 75
        THEN Return(_with_state(state, [confidence |-> max_conf]), <<>>)
        ELSE IF get_llm("auto", config) = "ValueError"
        THEN Raise(state, <<>>, "ValueError")
        ELSE LET io == <<Call("chain.invoke", "safety_classification", ok)>>
             IN  IF ok
                 THEN LET llm_flags == Get(result, "flags", <<>>)
                          llm_conf == Get(result, "confidence", 0)
                      IN  Return(_with_state(state,
                              [flags |-> flags \o
                                   [i \in DOMAIN llm_flags |->
                                       [flag |-> llm_flags[i],
                                        confidence |-> llm_conf,
                                        rule |-> "llm_classification"]],
                               confidence |-> llm_conf,
                               recommended_action |->
                                   Get(result, "action", "review"),
                               safe |-> Get(result, "is_safe", FALSE)]), io)
                 ELSE Return(_with_state(state,
                          [confidence |->
                              IF max_conf # 0 THEN max_conf ELSE 50]), io)

\* the stage asking for a confidence above 0.8 before it sends to review
Safety_node_determine_action_strict(state) ==
    LET flags == Get(state, "flags", <<>>)
        flag_names == {Get(flags[i], "flag", None) : i \in DOMAIN flags}
        confidence == Get(state, "confidence", 0)
        action == IF "explicit" \in flag_names \/ "phishing" \in flag_names
                  THEN "reject"
                  ELSE IF flags # <<>> /\ confidence > 80 THEN "review"
                  ELSE "allow"
    IN  Return(_with_state(state,
            [recommended_action |-> Get(state, "recommended_action", action),
             safe |-> action = "allow"]), <<>>)

Safety_node_determine_action(state) ==
    LET flags == Get(state, "flags", <<>>)
        flag_names == {Get(flags[i], "flag", None) : i \in DOMAIN flags}
        confidence == Get(state, "confidence", 0)
        action == IF "explicit" \in flag_names \/ "phishing" \in flag_names
                  THEN "reject"
                  ELSE IF flags # <<>> /\ confidence >= 70 THEN "review"
                  ELSE "allow"
    IN  Return(_with_state(state,
            [recommended_action |-> Get(state, "recommended_action", action),
             safe |-> action = "allow"]), <<>>)

Safety_node_finalize_response(state) ==
    Return(_with_state(state,
        [safe |-> Get(state, "safe", FALSE),
         recommended_action |-> Get(state, "recommended_action", "review")]),
        <<>>)

(***************************************************************************)
(* Onboarding pipeline.                                                    *)
(***************************************************************************)
\* re.match(r"[^@]+@[^@]+\.[^@]+", value): a prefix of value has the shape
_is_valid_email(value) ==
    \E i, j \in DOMAIN value :
        /\ i >= 2 /\ value[i] = "@"
        /\ \A k \in 1..(i - 1) : value[k] # "@"
        /\ j >= i + 2 /\ value[j] = "."
        /\ \A k \in (i + 1)..(j - 1) : value[k] # "@"
        /\ j + 1 <= Len(value) /\ value[j + 1] # "@"

_validate_step_one(form_data) ==
    (IF Get(form_data, "name", "") = ""
     THEN [name |-> "Name is required."] ELSE EmptyDict)
    @@ (IF ~Has(form_data, "email") \/ form_data["email"] = <<>>
           \/ ~_is_valid_email(form_data["email"])
        THEN [email |-> "Valid email is required."] ELSE EmptyDict)

_validate_step_two(form_data) ==
    (IF Get(form_data, "major", "") = ""
     THEN [major |-> "Major is required."] ELSE EmptyDict)
    @@ (IF ~Has(form_data, "year") \/ form_data["year"] < 1
           \/ form_data["year"] > 8
        THEN [year |-> "Year must be a valid integer."] ELSE EmptyDict)

_validate_step_three(form_data) ==
    (IF Get(form_data, "bio", "") = ""
     THEN [bio |-> "Bio is required."] ELSE EmptyDict)
    @@ (IF Get(form_data, "interests", {}) = {}
        THEN [interests |-> "Add at least one interest."] ELSE EmptyDict)

_validate_step_four(form_data) ==
    IF Get(form_data, "photoUrl", "") = ""
    THEN [photoUrl |-> "Profile photo is required."] ELSE EmptyDict

_validate_step_five(form_data) ==
    IF ~Has(form_data, "locationLat") \/ ~Has(form_data, "locationLng")
    THEN [location |-> "Location permission required."] ELSE EmptyDict

\* not form_data.get(k) for the keys of each type
FalsyStr(form_data, k) == Get(form_data, k, "") = ""

FalsySeq(form_data, k) == Get(form_data, k, <<>>) = <<>>

FalsyInt(form_data, k) == Get(form_data, k, 0) = 0

FalsySet(form_data, k) == Get(form_data, k, {}) = {}

\* the chain of checks with the photo looked at before bio and interests
FirstMissingStep_photo_first(form_data) ==
    IF FalsyStr(form_data, "name") \/ FalsySeq(form_data, "email") THEN 1
    ELSE IF FalsyStr(form_data, "major") \/ FalsyInt(form_data, "year") THEN 2
    ELSE IF FalsyStr(form_data, "photoUrl") THEN 4
    ELSE IF FalsyStr(form_data, "bio") \/ FalsySet(form_data, "interests")
    THEN 3
    ELSE 5

\* node_determine_step, the chain of checks on form_data
FirstMissingStep(form_data) ==
    IF FalsyStr(form_data, "name") \/ FalsySeq(form_data, "email") THEN 1
    ELSE IF FalsyStr(form_data, "major") \/ FalsyInt(form_data, "year") THEN 2
    ELSE IF FalsyStr(form_data, "bio") \/ FalsySet(form_data, "interests")
    THEN 3
    ELSE IF FalsyStr(form_data, "photoUrl") THEN 4
    ELSE IF ~Has(form_data, "locationLat") \/ ~Has(form_data, "locationLng")
    THEN 5
    ELSE 5

Onboarding_node_determine_step(state) ==
    IF Get(state, "current_step", 0) # 0 THEN Return(state, <<>>)
    ELSE Return(_with_state(state,
             [current_step |->
                 FirstMissingStep(Get(state, "form_data", EmptyDict))]), <<>>)

\* validators.get(step, _validate_step_one)(form_data)
ValidatorOf(step, form_data) ==
    CASE step = 1 -> _validate_step_one(form_data)
      [] step = 2 -> _validate_step_two(form_data)
      [] step = 3 -> _validate_step_three(form_data)
      [] step = 4 -> _validate_step_four(form_data)
      [] step = 5 -> _validate_step_five(form_data)
      [] OTHER -> _validate_step_one(form_data)

Onboarding_node_validate_step_data(state) ==
    LET step == Get(state, "current_step", 1)
        errors == ValidatorOf(step, Get(state, "form_data", EmptyDict))
    IN  Return(_with_state(state,
            [validation_errors |-> errors,
             is_valid |-> errors = EmptyDict]), <<>>)

\* what the guidance chain returns when it returns
OnboardingAugResults ==
    { [next_prompt |-> "llm prompt", guidance |-> "llm guidance"],
      [next_prompt |-> "llm prompt"] }

Onboarding_node_generate_next_prompt(state, config, ok, result) ==
    IF ~Get(state, "is_valid", FALSE)
    THEN Return(_with_state(state,
             [next_prompt |-> "Please fix the highlighted fields to continue."]),
             <<>>)
    ELSE IF get_llm("auto", config) = "ValueError"
    THEN Raise(state, <<>>, "ValueError")
    ELSE LET io == <<Call("chain.invoke", "onboarding_guidance", ok)>>
         IN  IF ok
             THEN Return(_with_state(state,
                      [next_prompt |-> Get(result, "next_prompt", ""),
                       guidance |-> Get(result, "guidance", "")]), io)
             ELSE Return(_with_state(state,
                      [next_prompt |-> "What would you like to share next?",
                       guidance |->
                           "Provide the next piece of profile information."]),
                      io)

\* a save stage that writes whatever validation found
Onboarding_node_save_progress_unguarded(state, ok) ==
    LET io == <<Call("profiles.set", state["user_id"], ok)>>
    IN  IF ok THEN Return(state, io)
        ELSE Raise(state, io, "FirestoreUnavailableError")

Onboarding_node_save_progress(state, ok) ==
    IF ~Get(state, "is_valid", FALSE) THEN Return(state, <<>>)
    ELSE LET io == <<Call("profiles.set", state["user_id"], ok)>>
         IN  IF ok THEN Return(state, io)
             ELSE Raise(state, io, "FirestoreUnavailableError")

Onboarding_node_check_completion(state) ==
    LET is_valid == Get(state, "is_valid", FALSE)
        step == Get(state, "current_step", 1)
    IN  Return(_with_state(state,
            [profile_complete |-> is_valid /\ step >= 5]), <<>>)

Onboarding_node_finalize_onboarding(state) ==
    Return(_with_state(state,
        [profile_complete |-> Get(state, "profile_complete", FALSE)]), <<>>)

\* form data an input state may carry
EmailChoices ==
    { <<>>, <<"a","@","b",".","c">>, <<"a","b",".","c">> }

YearChoices == {0, 3, 9}

\* an absent key is written as the falsy value of its type here
FormData(name, email, major, year, bio, interests, photo, lat, lng) ==
    (IF name = "" THEN EmptyDict ELSE [name |-> name])
    @@ (IF email = <<>> THEN EmptyDict ELSE [email |-> email])
    @@ (IF major = "" THEN EmptyDict ELSE [major |-> major])
    @@ (IF year = 0 THEN EmptyDict ELSE [year |-> year])
    @@ (IF bio = "" THEN EmptyDict ELSE [bio |-> bio])
    @@ (IF interests = {} THEN EmptyDict ELSE [interests |-> interests])
    @@ (IF photo = "" THEN EmptyDict ELSE [photoUrl |-> photo])
    @@ (IF lat THEN [locationLat |-> 0] ELSE EmptyDict)
    @@ (IF lng THEN [locationLng |-> 0] ELSE EmptyDict)

FormDatas ==
    { FormData(name, email, major, year, bio, interests, photo, lat, lng) :
        name \in {"", "Ann"}, email \in EmailChoices, major \in {"", "CS"},
        year \in YearChoices, bio \in {"", "hi"},
        interests \in {{}, {"ai"}}, photo \in {"", "url"},
        lat \in BOOLEAN, lng \in {TRUE} }
    \cup { [name |-> "Ann", email |-> <<"a","@","b",".","c">>,
            major |-> "CS", year |-> 0] }

\* 0: the input carries no current_step
InputStepChoices == {0, 2, 5}

OnboardingInputs ==
    { [user_id |-> UserId, tenant_id |-> TenantId, form_data |-> fd]
      @@ (IF step = 0 THEN EmptyDict ELSE [current_step |-> step]) :
        fd \in FormDatas, step \in InputStepChoices }
    \cup { [user_id |-> UserId, tenant_id |-> TenantId,
            form_data |-> EmptyDict] @@ OptionalError("preset"),
           [user_id |-> UserId, tenant_id |-> TenantId,
            form_data |-> EmptyDict, current_step |-> 0] }

(***************************************************************************)
(* Events/communities pipeline.  Event scores are kept in tenths and group *)
(* scores in fiftieths, which makes attendees/10 and members/50 exact.     *)
(***************************************************************************)
\* hoursUntil stands for startTime: the hours from now until the event
\* starts, absent when startTime does not parse
_score_event(event, user_profile) ==
    LET interests == Get(user_profile, "interests", {})
        s1 == IF Has(event, "category") /\ event["category"] \in interests
              THEN 500 + 150 ELSE 500
        s2 == IF Has(event, "hoursUntil") /\ event["hoursUntil"] >= 0
                 /\ event["hoursUntil"] <= 72
              THEN s1 + 100 ELSE s1
    IN  s2 + Min(Get(event, "attendeesCount", 0), 150)

_score_group(group, user_profile) ==
    LET common == Cardinality(Get(user_profile, "interests", {})
                              \cap Get(group, "tags", {}))
    IN  2500 + Min(common * 250, 1000) + Min(Get(group, "memberCount", 0), 750)

EventLists ==
    { <<>>,
      << [id |-> "e3"],
         [id |-> "e1", category |-> "ai", hoursUntil |-> 10,
          attendeesCount |-> 20],
         [id |-> "e2", category |-> "art", attendeesCount |-> 200] >> }

GroupLists ==
    { <<>>,
      << [id |-> "g1", tags |-> {"ai", "chess"}, memberCount |-> 100],
         [uid |-> "g2", tags |-> {"art"}, memberCount |-> 5000] >> }

\* what the ranking chain returns when it returns
EventsAugResults ==
    { [reasons |-> [e1 |-> "why e1", g1 |-> "why g1"]], [other |-> ""] }

RequestTypeChoices == {"absent", "events", "communities"}

Events_node_fetch_user_profile(state, outcome, profile) ==
    LET io == <<Call("get_user_profile", state["user_id"],
                     outcome # "unavailable")>>
    IN  IF outcome = "unavailable"
        THEN Return(_with_state(state,
                 [error |->
                     "Firestore unavailable. Returning empty recommendations."]),
                 io)
        ELSE IF outcome = "none"
        THEN Return(_with_state(state,
                 [error |-> "User profile not found: u0"]), io)
        ELSE Return(_with_state(state,
                 [user_profile |-> profile,
                  campus_id |-> Get(profile, "campusId", "")]), io)

Events_node_query_events_and_groups(state, events_ok, events, groups_ok, groups) ==
    IF HasError(state) THEN Return(state, <<>>)
    ELSE LET io == <<Call("get_all_events", state["campus_id"], events_ok)>>
                   \o (IF events_ok
                       THEN <<Call("get_all_groups", state["campus_id"],
                                   groups_ok)>>
                       ELSE <<>>)
         IN  IF events_ok /\ groups_ok
             THEN Return(_with_state(state,
                      [candidates |-> [events |-> events, groups |-> groups]]),
                      io)
             ELSE Return(_with_state(state,
                      [error |-> "Failed to load events or groups.",
                       candidates |-> [events |-> <<>>, groups |-> <<>>]]), io)

NoCandidates == [events |-> <<>>, groups |-> <<>>]

Events_node_rank_events(state) ==
    IF HasError(state) THEN Return(state, <<>>)
    ELSE LET events == Get(state, "candidates", NoCandidates).events
             scored == [i \in DOMAIN events |->
                           [score |-> _score_event(events[i],
                                                   state["user_profile"])]
                           @@ events[i]]
             ranked == sorted_reverse(scored, "score")
         IN  Return(_with_state(state,
                        [ranked_events |-> Head_n(ranked, TopN)]), <<>>)

Events_node_rank_communities(state) ==
    IF HasError(state) THEN Return(state, <<>>)
    ELSE LET groups == Get(state, "candidates", NoCandidates).groups
             scored == [i \in DOMAIN groups |->
                           [score |-> _score_group(groups[i],
                                                   state["user_profile"])]
                           @@ groups[i]]
             ranked == sorted_reverse(scored, "score")
         IN  Return(_with_state(state,
                        [ranked_groups |-> Head_n(ranked, TopN)]), <<>>)

Events_node_generate_reasoning(state, config, ok, result) ==
    IF HasError(state) THEN Return(state, <<>>)
    ELSE IF get_llm("auto", config) = "ValueError"
    THEN Raise(state, <<>>, "ValueError")
    ELSE LET candidates == IF Get(state, "request_type", None) = "events"
                           THEN Get(state, "ranked_events", <<>>)
                           ELSE Get(state, "ranked_groups", <<>>)
             io == <<[candidates |-> candidates]
                     @@ Call("chain.invoke", "recommendations_reasoning", ok)>>
         IN  IF ok
             THEN Return(_with_state(state,
                      [reasoning |-> Get(result, "reasons", EmptyDict)]), io)
             ELSE Return(_with_state(state, [reasoning |-> EmptyDict]), io)

Events_node_finalize_recommendations(state) ==
    LET request_type == Get(state, "request_type", "events")
        items == IF request_type = "events"
                 THEN Get(state, "ranked_events", <<>>)
                 ELSE Get(state, "ranked_groups", <<>>)
        reasoning == Get(state, "reasoning", EmptyDict)
        enriched ==
            [i \in DOMAIN items |->
                [reason |-> Get(reasoning,
                                Get(items[i], "id",
                                    Get(items[i], "uid", None)), "")]
                @@ items[i]]
    IN  Return(_with_state(state, [ranked_recommendations |-> enriched]),
               <<>>)

EventsInputs ==
    { [user_id |-> UserId, tenant_id |-> TenantId]
      @@ (IF rt = "absent" THEN EmptyDict ELSE [request_type |-> rt])
      @@ OptionalError(e) :
        rt \in RequestTypeChoices, e \in InputErrorChoices }

(***************************************************************************)
(* Chat assistant pipeline.                                                *)
(***************************************************************************)
\* str.strip().lower() on the values an input state carries here
StripLower(value) ==
    CASE value = " Draft_Reply " -> "draft_reply"
      [] value = "  " -> ""
      [] OTHER -> value

\* str.strip()
Strip(value) ==
    CASE value = "  " -> ""
      [] OTHER -> value

valid_actions ==
    {"list_conversations", "summarise_conversation", "draft_reply"}

\* a validation that does not require conversation_id
Chat_node_validate_input_any_conversation(state) ==
    LET auth_token == Get(state, "auth_token", "")
        user_id == Get(state, "user_id", "")
        raw_action == Get(state, "action", "")
        action == StripLower(IF raw_action = "" THEN "list_conversations"
                             ELSE raw_action)
    IN  IF auth_token = "" \/ user_id = "" \/ action \notin valid_actions
        THEN Return(_with_state(state, [error |-> "invalid input"]), <<>>)
        ELSE Return(_with_state(state, [action |-> action]), <<>>)

Chat_node_validate_input(state) ==
    LET auth_token == Get(state, "auth_token", "")
        user_id == Get(state, "user_id", "")
        raw_action == Get(state, "action", "")
        action == StripLower(IF raw_action = "" THEN "list_conversations"
                             ELSE raw_action)
        conversation_id == Strip(Get(state, "conversation_id", ""))
    IN  IF auth_token = ""
        THEN Return(_with_state(state,
                 [error |-> "auth_token is required for chat_assistant graph"]),
                 <<>>)
        ELSE IF user_id = ""
        THEN Return(_with_state(state,
                 [error |-> "user_id is required for chat_assistant graph"]),
                 <<>>)
        ELSE IF action \in {"summarise_conversation", "draft_reply"}
                /\ conversation_id = ""
        THEN Return(_with_state(state,
                 [error |-> "conversation_id is required when action is given"]),
                 <<>>)
        ELSE IF action \notin valid_actions
        THEN Return(_with_state(state,
                 [error |-> "action must be one of the valid actions"]), <<>>)
        ELSE Return(_with_state(state,
                 [auth_token |-> auth_token,
                  user_id |-> user_id,
                  action |-> action,
                  conversation_id |->
                      IF conversation_id # "" THEN conversation_id
                      ELSE Get(state, "conversation_id", "")]), <<>>)

\* a routing function that returns the action whatever the error field holds
route_after_validate_action_only(state) ==
    Get(state, "action", "list_conversations")

\* the key the routing function returns
route_after_validate(state) ==
    IF HasError(state) THEN "finalize_response"
    ELSE Get(state, "action", "list_conversations")

\* the edge map with the error route wired to END
RouteTargets_error_to_end ==
    [list_conversations |-> "list_conversations",
     summarise_conversation |-> "summarise_conversation",
     draft_reply |-> "generate_draft_reply",
     finalize_response |-> "done"]

\* the edge map of add_conditional_edges
RouteTargets ==
    [list_conversations |-> "list_conversations",
     summarise_conversation |-> "summarise_conversation",
     draft_reply |-> "generate_draft_reply",
     finalize_response |-> "finalize_response"]

\* the ChatContext the graph object holds after the call: built from the
\* state when self._ctx is None, the one already held otherwise
_context(self_ctx, state) ==
    IF Len(self_ctx) = 0
    THEN [auth_token |-> state["auth_token"], user_id |-> state["user_id"]]
    ELSE self_ctx[1]

\* a stage's result together with the _ctx it leaves on the graph object
WithCtx(r, ctx) ==
    [st |-> r.st, io |-> r.io, exc |-> r.exc, ctx |-> <<ctx>>]

\* err of `err = _check_backend_error(result, context); if err:`
_check_backend_error(result, context) ==
    IF ~Get(result, "success", TRUE) THEN Get(result, "error", context)
    ELSE ""

\* what the REST tools return
ListResults ==
    { [success |-> TRUE, conversations |-> <<"conv1">>, total |-> 1],
      [success |-> TRUE],
      [success |-> FALSE,
       error |-> "Unauthorized: invalid or expired user token"] }

MetaResults ==
    { [success |-> TRUE, conversation |-> [id |-> "conv1"]],
      [success |-> FALSE, error |-> "Forbidden: access denied"] }

MessageResults ==
    { [success |-> TRUE,
       messages |-> <<[senderName |-> "Bob", content |-> "hello"]>>],
      [success |-> TRUE, messages |-> <<>>],
      [success |-> FALSE, error |-> "HTTP 500"] }

\* what the summary and draft chains return when they return
ChatAugResults == { [summary |-> "llm summary", draft_reply |-> "llm draft"],
                    [summary |-> "", draft_reply |-> ""] }

Chat_node_list_conversations(self_ctx, state, result) ==
    LET ctx == _context(self_ctx, state)
        io == <<Call("list_user_conversations", ctx.auth_token,
                     Get(result, "success", TRUE))>>
        err == _check_backend_error(result, "List conversations failed")
    IN  WithCtx(
         IF err # "" THEN Return(_with_state(state, [error |-> err]), io)
         ELSE LET conversations == Get(result, "conversations", <<>>)
              IN  Return(_with_state(state,
                      [conversations |-> conversations,
                       response_metadata |->
                           [total |-> Get(result, "total",
                                          Len(conversations))]]), io),
         ctx)

Chat_node_summarise_conversation(self_ctx, state, meta, msg_result, config, ok, out) ==
    LET ctx == _context(self_ctx, state)
        io1 == <<Call("get_conversation_by_id", ctx.auth_token,
                      Get(meta, "success", TRUE))>>
        err1 == _check_backend_error(meta, "Get conversation failed")
        state1 == _with_state(state,
                      [conversation_metadata |->
                          Get(meta, "conversation", EmptyDict)])
        io2 == io1 \o <<Call("get_conversation_messages", ctx.auth_token,
                             Get(msg_result, "success", TRUE))>>
        err2 == _check_backend_error(msg_result, "Get messages failed")
        messages == Get(msg_result, "messages", <<>>)
        state2 == _with_state(state1, [messages |-> messages])
    IN  WithCtx(
         IF err1 # "" THEN Return(_with_state(state, [error |-> err1]), io1)
         ELSE IF err2 # ""
         THEN Return(_with_state(state1, [error |-> err2]), io2)
         ELSE IF messages = <<>>
         THEN Return(_with_state(state2,
                  [summary |-> "No messages in this conversation yet."]), io2)
         ELSE IF get_llm("auto", config) = "ValueError"
         THEN Raise(state, io2, "ValueError")
         ELSE LET io3 == io2 \o <<Call("chain.invoke", "conversation_summary",
                                       ok)>>
              IN  IF ok
                  THEN Return(_with_state(state2,
                           [summary |-> IF Get(out, "summary", "") # ""
                                        THEN out["summary"]
                                        ELSE "str(out)"]), io3)
                  ELSE Return(_with_state(state2,
                           [error |-> "Failed to summarise conversation"]), io3),
         ctx)

\* a draft stage that posts the draft it made to the conversation
Chat_node_draft_reply_sending(self_ctx, state, msg_result, config, ok, out) ==
    LET ctx == _context(self_ctx, state)
        io1 == <<Call("get_conversation_messages", ctx.auth_token,
                      Get(msg_result, "success", TRUE))>>
        err == _check_backend_error(msg_result, "Get messages failed")
        messages == Get(msg_result, "messages", <<>>)
    IN  WithCtx(
         IF err # "" THEN Return(_with_state(state, [error |-> err]), io1)
         ELSE IF messages = <<>>
         THEN Return(_with_state(state,
                  [draft_reply |-> "Hi! How can I help?"]), io1)
         ELSE IF get_llm("auto", config) = "ValueError"
         THEN Raise(state, io1, "ValueError")
         ELSE LET io2 == io1 \o <<Call("chain.invoke", "draft_reply", ok)>>
              IN  IF ok
                  THEN Return(_with_state(state,
                           [draft_reply |-> IF Get(out, "draft_reply", "") # ""
                                            THEN out["draft_reply"]
                                            ELSE "str(out)"]),
                           io2 \o <<Call("send_conversation_message",
                                         ctx.auth_token, TRUE)>>)
                  ELSE Return(_with_state(state,
                           [error |-> "Failed to draft reply"]), io2),
         ctx)

Chat_node_draft_reply(self_ctx, state, msg_result, config, ok, out) ==
    LET ctx == _context(self_ctx, state)
        io1 == <<Call("get_conversation_messages", ctx.auth_token,
                      Get(msg_result, "success", TRUE))>>
        err == _check_backend_error(msg_result, "Get messages failed")
        messages == Get(msg_result, "messages", <<>>)
    IN  WithCtx(
         IF err # "" THEN Return(_with_state(state, [error |-> err]), io1)
         ELSE IF messages = <<>>
         THEN Return(_with_state(state,
                  [draft_reply |-> "Hi! How can I help?"]), io1)
         ELSE IF get_llm("auto", config) = "ValueError"
         THEN Raise(state, io1, "ValueError")
         ELSE LET io2 == io1 \o <<Call("chain.invoke", "draft_reply", ok)>>
              IN  IF ok
                  THEN Return(_with_state(state,
                           [draft_reply |-> IF Get(out, "draft_reply", "") # ""
                                            THEN out["draft_reply"]
                                            ELSE "str(out)"]), io2)
                  ELSE Return(_with_state(state,
                           [error |-> "Failed to draft reply"]), io2),
         ctx)

Chat_node_finalize_response(state) == Return(state, <<>>)

ActionChoices ==
    {"", "list_conversations", "summarise_conversation", "draft_reply",
     " Draft_Reply ", "delete_all"}

ConversationIdChoices == {"", "  ", "conv1"}

\* "" stands for a key that is absent or empty
ChatInputs ==
    { (IF a = "" THEN EmptyDict ELSE [action |-> a])
      @@ (IF c = "" THEN EmptyDict ELSE [conversation_id |-> c])
      @@ (IF t = "" THEN EmptyDict ELSE [auth_token |-> t])
      @@ (IF u = "" THEN EmptyDict ELSE [user_id |-> u])
      @@ OptionalError(e) :
        a \in ActionChoices, c \in ConversationIdChoices,
        t \in {"", "tokA"}, u \in {"", UserId}, e \in InputErrorChoices }

(***************************************************************************)
(* Runs.                                                                   *)
(***************************************************************************)
Pipelines ==
    {"matching", "safety", "onboarding", "events_communities",
     "chat_assistant"}

MatchingInputs ==
    { [user_id |-> UserId, tenant_id |-> TenantId]
      @@ (IF p = "given" THEN [preferences |-> GivenPreferences]
          ELSE IF p = "malformed" THEN [preferences |-> MalformedPreferences]
          ELSE IF p = "fractional"
          THEN [preferences |-> FractionalPreferences]
          ELSE EmptyDict)
      @@ OptionalError(e) : p \in PreferenceChoices, e \in InputErrorChoices }

\* flags and recommended_action may come with the input; an error given in
\* the input is tried on its own
SafetyInput(c, has_flags, f, ra, e) ==
    [content |-> c, content_type |-> "message"]
    @@ (IF has_flags THEN [flags |-> f] ELSE EmptyDict)
    @@ (IF ra = "absent" THEN EmptyDict ELSE [recommended_action |-> ra])
    @@ OptionalError(e)

SafetyInputs ==
    { SafetyInput(c, has_flags, f, ra, "absent") :
        c \in Contents, has_flags \in BOOLEAN,
        f \in FlagListsUpTo(MaxInputFlags), ra \in {"absent", "allow"} }
    \cup { SafetyInput(c, FALSE, <<>>, "absent", "preset") : c \in Contents }

Inputs(p) ==
    CASE p = "matching" -> MatchingInputs
      [] p = "safety" -> SafetyInputs
      [] p = "onboarding" -> OnboardingInputs
      [] p = "events_communities" -> EventsInputs
      [] p = "chat_assistant" -> ChatInputs

Entry(p) ==
    CASE p = "matching" -> "fetch_user_profile"
      [] p = "safety" -> "detect_spam_patterns"
      [] p = "onboarding" -> "determine_current_step"
      [] p = "events_communities" -> "fetch_user_profile"
      [] p = "chat_assistant" -> "validate_input"

Init ==
    /\ pipeline \in Pipelines
    /\ input \in Inputs(pipeline)
    /\ st = input
    /\ pc = Entry(pipeline)
    /\ calls = <<>>
    /\ exc = "none"
    /\ ran = <<>>
    /\ _ctx = <<>>
    /\ AI_SERVICE_TOKEN = ""
    /\ authorization = <<>>
    /\ response = <<>>

\* the executor: take what the stage returned and follow its edge
Advance(r, next) ==
    /\ st' = r.st
    /\ calls' = calls \o r.io
    /\ exc' = r.exc
    /\ pc' = IF r.exc = "none" THEN next ELSE "raised"
    /\ ran' = Append(ran, pc)
    /\ _ctx' = IF "ctx" \in DOMAIN r THEN r.ctx ELSE _ctx
    /\ UNCHANGED <<pipeline, input, server>>

MatchingFetchUserProfile ==
    /\ pipeline = "matching" /\ pc = "fetch_user_profile"
    /\ \E outcome \in {"found", "none", "unavailable"}, p \in SubjectProfiles :
          Advance(Matching_node_fetch_user_profile(st, outcome, p),
                  "query_candidates")

MatchingQueryCandidates ==
    /\ pipeline = "matching" /\ pc = "query_candidates"
    /\ \E ok \in BOOLEAN, l \in CandidateLists :
          Advance(Matching_node_query_candidates(st, ok, l),
                  "filter_candidates")

ConnectionChoices == {{}, {"a"}}

RecentChoices == {{}, {"c"}}

MatchingFilterCandidates ==
    /\ pipeline = "matching" /\ pc = "filter_candidates"
    /\ \E conn_ok, rec_ok \in BOOLEAN,
          connected \in ConnectionChoices, recent \in RecentChoices :
          Advance(Matching_node_filter_candidates(st, conn_ok, connected,
                                                  rec_ok, recent),
                  "score_matches")

MatchingScoreMatches ==
    /\ pipeline = "matching" /\ pc = "score_matches"
    /\ Advance(Matching_node_score_matches(st), "rank_top_matches")

MatchingRankTopMatches ==
    /\ pipeline = "matching" /\ pc = "rank_top_matches"
    /\ Advance(Matching_node_rank_top_matches(st), "generate_reasoning")

MatchingGenerateReasoning ==
    /\ pipeline = "matching" /\ pc = "generate_reasoning"
    /\ \E config \in Configs, fail \in FailChoices,
          result \in MatchingAugResults :
          Advance(Matching_node_generate_reasoning(st, config, fail, result),
                  "finalize_response")

MatchingFinalizeResponse ==
    /\ pipeline = "matching" /\ pc = "finalize_response"
    /\ \E save_fail \in FailChoices :
          Advance(Matching_node_finalize_response(st, save_fail), "done")

SafetyDetectSpamPatterns ==
    /\ pipeline = "safety" /\ pc = "detect_spam_patterns"
    /\ Advance(Safety_node_detect_spam_patterns(st), "check_explicit_content")

SafetyCheckExplicitContent ==
    /\ pipeline = "safety" /\ pc = "check_explicit_content"
    /\ Advance(Safety_node_check_explicit_content(st), "classify_uncertain")

SafetyClassifyUncertain ==
    /\ pipeline = "safety" /\ pc = "classify_uncertain"
    /\ \E config \in Configs, ok \in BOOLEAN, result \in SafetyAugResults :
          Advance(Safety_node_classify_uncertain(st, config, ok, result),
                  "determine_action")

\* the stage with its outgoing edge pointing back at classify_uncertain
SafetyDetermineAction_back ==
    /\ pipeline = "safety" /\ pc = "determine_action"
    /\ Advance(Safety_node_determine_action(st), "classify_uncertain")

SafetyDetermineAction ==
    /\ pipeline = "safety" /\ pc = "determine_action"
    /\ Advance(Safety_node_determine_action(st), "finalize_safety_response")

SafetyFinalizeResponse ==
    /\ pipeline = "safety" /\ pc = "finalize_safety_response"
    /\ Advance(Safety_node_finalize_response(st), "done")

OnboardingDetermineStep ==
    /\ pipeline = "onboarding" /\ pc = "determine_current_step"
    /\ Advance(Onboarding_node_determine_step(st), "validate_step_data")

OnboardingValidateStepData ==
    /\ pipeline = "onboarding" /\ pc = "validate_step_data"
    /\ Advance(Onboarding_node_validate_step_data(st), "generate_next_prompt")

OnboardingGenerateNextPrompt ==
    /\ pipeline = "onboarding" /\ pc = "generate_next_prompt"
    /\ \E config \in Configs, ok \in BOOLEAN,
          result \in OnboardingAugResults :
          Advance(Onboarding_node_generate_next_prompt(st, config, ok, result),
                  "save_progress")

OnboardingSaveProgress ==
    /\ pipeline = "onboarding" /\ pc = "save_progress"
    /\ \E ok \in BOOLEAN :
          Advance(Onboarding_node_save_progress(st, ok), "check_completion")

OnboardingCheckCompletion ==
    /\ pipeline = "onboarding" /\ pc = "check_completion"
    /\ Advance(Onboarding_node_check_completion(st), "finalize_onboarding")

OnboardingFinalize ==
    /\ pipeline = "onboarding" /\ pc = "finalize_onboarding"
    /\ Advance(Onboarding_node_finalize_onboarding(st), "done")

EventsFetchUserProfile ==
    /\ pipeline = "events_communities" /\ pc = "fetch_user_profile"
    /\ \E outcome \in {"found", "none", "unavailable"}, p \in SubjectProfiles :
          Advance(Events_node_fetch_user_profile(st, outcome, p),
                  "query_events_and_groups")

EventsQueryEventsAndGroups ==
    /\ pipeline = "events_communities" /\ pc = "query_events_and_groups"
    /\ \E events_ok, groups_ok \in BOOLEAN,
          events \in EventLists, groups \in GroupLists :
          Advance(Events_node_query_events_and_groups(st, events_ok, events,
                                                      groups_ok, groups),
                  "rank_events")

EventsRankEvents ==
    /\ pipeline = "events_communities" /\ pc = "rank_events"
    /\ Advance(Events_node_rank_events(st), "rank_communities")

EventsRankCommunities ==
    /\ pipeline = "events_communities" /\ pc = "rank_communities"
    /\ Advance(Events_node_rank_communities(st), "generate_event_reasoning")

EventsGenerateReasoning ==
    /\ pipeline = "events_communities" /\ pc = "generate_event_reasoning"
    /\ \E config \in Configs, ok \in BOOLEAN, result \in EventsAugResults :
          Advance(Events_node_generate_reasoning(st, config, ok, result),
                  "finalize_recommendations")

EventsFinalizeRecommendations ==
    /\ pipeline = "events_communities" /\ pc = "finalize_recommendations"
    /\ Advance(Events_node_finalize_recommendations(st), "done")

ChatValidateInput ==
    /\ pipeline = "chat_assistant" /\ pc = "validate_input"
    /\ LET r == Chat_node_validate_input(st)
           key == route_after_validate(r.st)
       IN  IF key \in DOMAIN RouteTargets
           THEN Advance(r, RouteTargets[key])
           ELSE Advance(Raise(r.st, r.io, "KeyError"), "raised")

ChatListConversations ==
    /\ pipeline = "chat_assistant" /\ pc = "list_conversations"
    /\ \E result \in ListResults :
          Advance(Chat_node_list_conversations(_ctx, st, result),
                  "finalize_response")

ChatSummariseConversation ==
    /\ pipeline = "chat_assistant" /\ pc = "summarise_conversation"
    /\ \E meta \in MetaResults, msg_result \in MessageResults,
          config \in Configs, ok \in BOOLEAN, out \in ChatAugResults :
          Advance(Chat_node_summarise_conversation(_ctx, st, meta, msg_result,
                                                   config, ok, out),
                  "finalize_response")

ChatDraftReply ==
    /\ pipeline = "chat_assistant" /\ pc = "generate_draft_reply"
    /\ \E msg_result \in MessageResults, config \in Configs,
          ok \in BOOLEAN, out \in ChatAugResults :
          Advance(Chat_node_draft_reply(_ctx, st, msg_result, config, ok,
                                        out),
                  "finalize_response")

ChatFinalizeResponse ==
    /\ pipeline = "chat_assistant" /\ pc = "finalize_response"
    /\ Advance(Chat_node_finalize_response(st), "done")

Next ==
    \/ MatchingFetchUserProfile
    \/ MatchingQueryCandidates
    \/ MatchingFilterCandidates
    \/ MatchingScoreMatches
    \/ MatchingRankTopMatches
    \/ MatchingGenerateReasoning
    \/ MatchingFinalizeResponse
    \/ SafetyDetectSpamPatterns
    \/ SafetyCheckExplicitContent
    \/ SafetyClassifyUncertain
    \/ SafetyDetermineAction
    \/ SafetyFinalizeResponse
    \/ OnboardingDetermineStep
    \/ OnboardingValidateStepData
    \/ OnboardingGenerateNextPrompt
    \/ OnboardingSaveProgress
    \/ OnboardingCheckCompletion
    \/ OnboardingFinalize
    \/ EventsFetchUserProfile
    \/ EventsQueryEventsAndGroups
    \/ EventsRankEvents
    \/ EventsRankCommunities
    \/ EventsGenerateReasoning
    \/ EventsFinalizeRecommendations
    \/ ChatValidateInput
    \/ ChatListConversations
    \/ ChatSummariseConversation
    \/ ChatDraftReply
    \/ ChatFinalizeResponse

Spec == Init /\ [][Next]_vars

\* the requests a caller that keeps the compiled chat assistant graph sends
\* it after the first: another user's token and user id
ChatReuseInputs ==
    { [auth_token |-> "tokB", user_id |-> "u1", conversation_id |-> "conv1",
       action |-> a] : a \in valid_actions }

\* the graph object create_chat_assistant_graph returned is invoked again,
\* after a run on it has ended, with the next request; calls and ran start
\* afresh with the run, the object keeps its attributes
ChatInvokeAgain ==
    /\ pipeline = "chat_assistant" /\ pc \in {"done", "raised"}
    /\ input' \in ChatReuseInputs
    /\ st' = input'
    /\ pc' = Entry(pipeline)
    /\ calls' = <<>>
    /\ exc' = "none"
    /\ ran' = <<>>
    /\ UNCHANGED <<pipeline, _ctx, server>>

ReuseNext == Next \/ ChatInvokeAgain

\* runs one after the other on one built chat assistant graph
ReuseSpec == Init /\ [][ReuseNext]_vars

\* the nodes build_graph adds to each pipeline
StagesOf(p) ==
    CASE p = "matching" ->
             {"fetch_user_profile", "query_candidates", "filter_candidates",
              "score_matches", "rank_top_matches", "generate_reasoning",
              "finalize_response"}
      [] p = "safety" ->
             {"detect_spam_patterns", "check_explicit_content",
              "classify_uncertain", "determine_action",
              "finalize_safety_response"}
      [] p = "onboarding" ->
             {"determine_current_step", "validate_step_data",
              "generate_next_prompt", "save_progress", "check_completion",
              "finalize_onboarding"}
      [] p = "events_communities" ->
             {"fetch_user_profile", "query_events_and_groups", "rank_events",
              "rank_communities", "generate_event_reasoning",
              "finalize_recommendations"}
      [] p = "chat_assistant" ->
             {"validate_input", "list_conversations",
              "summarise_conversation", "generate_draft_reply",
              "finalize_response"}

\* graph.invoke: while the run stands at a node of the graph, the executor
\* invokes it and follows its edge to another node or to the end of the run
Invoke ==
    /\ pc \in StagesOf(pipeline)
    /\ pc' \in (StagesOf(pipeline) \cup {"done", "raised"}) \ {pc}

\* the executor does not stall: a run standing at a node is carried on
FairSpec == Spec /\ WF_pc(Invoke)

(***************************************************************************)
(* The entry point POST /run-graph: a request names a graph and carries an *)
(* input state; the handler checks the service token, builds the graph it  *)
(* routes to, invokes it and answers.                                      *)
(***************************************************************************)
\* request.graph: the five routed names, a graph of the repository the
\* handler does not route, and a name no graph has
GraphNames == Pipelines \cup {"help", "recommendations"}

RequestInputs(graph) ==
    IF graph \in Pipelines THEN Inputs(graph)
    ELSE {EmptyDict, [user_id |-> UserId]}

ServiceTokens == {"", "s3cret"}

\* f"Bearer {token}"
Bearer(token) == <<"Bearer ", token>>

Authorizations == {<<>>, Bearer("s3cret"), Bearer("other")}

\* an HTTPException caught by the handler's outer except Exception, and
\* answered as an unexpected error
http_exception_handler_unexpected(status_code, detail) ==
    [status_code |-> 500,
     content |-> [success |-> FALSE, error |-> <<"Internal server error">>,
                  status_code |-> 500]]

\* an HTTPException as http_exception_handler answers it
http_exception_handler(status_code, detail) ==
    [status_code |-> status_code,
     content |-> [success |-> FALSE, error |-> detail,
                  status_code |-> status_code]]

\* a response whose success flag follows the error field of the result
GraphResponse_by_error_field(graph, data) ==
    [status_code |-> 200,
     content |-> [success |-> ~HasError(data), graph |-> graph,
                  data |-> data, error |-> <<>>]]

\* the GraphResponse of a completed run, answered with status 200; the
\* None of error is written <<>>
GraphResponse(graph, data) ==
    [status_code |-> 200,
     content |-> [success |-> TRUE, graph |-> graph, data |-> data,
                  error |-> <<>>]]

\* texts of the faults of the document store, as str(exc) gives them
StoreFaultMessages ==
    {"503 failed to connect to firestore.googleapis.com:443",
     "Deadline of 60.0s exceeded"}

\* str(e) of an exception that left graph.invoke
ExcMessages(e) ==
    CASE e = "FirestoreUnavailableError" -> StoreFaultMessages
      [] e = "ValueError" ->
             {"No LLM provider configured. Set PERPLEXITY_API_KEY or OPENAI_API_KEY."}
      [] OTHER -> {e}

ServerInit ==
    /\ pipeline \in GraphNames
    /\ input \in RequestInputs(pipeline)
    /\ st = input
    /\ pc = "received"
    /\ calls = <<>>
    /\ exc = "none"
    /\ ran = <<>>
    /\ _ctx = <<>>
    /\ AI_SERVICE_TOKEN \in ServiceTokens
    /\ authorization \in Authorizations
    /\ response = <<>>

Reject(status_code, detail) ==
    /\ response' = <<http_exception_handler(status_code, detail)>>
    /\ pc' = "rejected"

\* run_graph up to graph.invoke: token check, then the graph is built
RunGraphRoute ==
    /\ pc = "received"
    /\ IF AI_SERVICE_TOKEN # "" /\ authorization # Bearer(AI_SERVICE_TOKEN)
       THEN Reject(401, <<"Unauthorized">>)
       ELSE IF pipeline \in {"matching", "safety", "onboarding",
                             "events_communities"}
       THEN pc' = Entry(pipeline) /\ UNCHANGED response
       ELSE IF pipeline = "chat_assistant"
       THEN IF Get(input, "auth_token", "") = ""
               \/ Get(input, "user_id", "") = ""
            THEN Reject(400,
                     <<"chat_assistant graph requires auth_token and user_id in input">>)
            ELSE pc' = Entry(pipeline) /\ UNCHANGED response
       ELSE Reject(400,
                <<"Unknown graph: ", pipeline,
                  ". Valid options: matching, safety, onboarding, events_communities, chat_assistant">>)
    /\ UNCHANGED <<pipeline, st, calls, exc, input, ran, _ctx,
                   AI_SERVICE_TOKEN, authorization>>

\* the answer to an exception that left graph.invoke
ExecutionFailure(e, message) ==
    IF e = "TimeoutError"
    THEN http_exception_handler(504, <<"Graph execution timed out">>)
    ELSE http_exception_handler(500, <<"Graph execution failed: ", message>>)

\* run_graph from the return of graph.invoke
RunGraphRespond ==
    /\ pc \in {"done", "raised"} /\ response = <<>>
    /\ IF pc = "done"
       THEN response' = <<GraphResponse(pipeline, st)>>
       ELSE \E message \in ExcMessages(exc) :
               response' = <<ExecutionFailure(exc, message)>>
    /\ UNCHANGED <<pipeline, pc, st, calls, exc, input, ran, _ctx,
                   AI_SERVICE_TOKEN, authorization>>

ServerNext == RunGraphRoute \/ Next \/ RunGraphRespond

ServerSpec == ServerInit /\ [][ServerNext]_vars

(***************************************************************************)
(* The tools called on their own: a function of tools/ and the arguments   *)
(* it is applied to.  pc is the function about to be applied, input its    *)
(* arguments, st the dict [result |-> what it returned], exc what it       *)
(* raised.                                                                 *)
(***************************************************************************)
\* the REST tools of chat_tools.py
ChatTools ==
    {"list_user_conversations", "get_conversation_messages",
     "send_conversation_message", "get_conversation_by_id"}

StatusCodes == {200, 400, 401, 403, 404, 500}

\* r.content of a backend response: nothing, a JSON object, or text that
\* is not JSON (the page of a proxy or gateway)
Bodies ==
    { [kind |-> "empty"],
      [kind |-> "object", data |-> EmptyDict],
      [kind |-> "object", data |-> [error |-> "Conversation not found"]],
      [kind |-> "object", data |-> [conversations |-> <<"conv1">>]],
      [kind |-> "text"] }

\* what client.get / client.post does: raises (no connection), or returns
\* a response
Exchanges ==
    { [kind |-> "connect_error"] }
    \cup { [kind |-> "response", status_code |-> c, body |-> b] :
             c \in StatusCodes, b \in Bodies }

\* httpx Response.is_success
is_success(status_code) == 200 <= status_code /\ status_code < 300

\* f"HTTP {r.status_code}"
HttpText(status_code) ==
    CASE status_code = 200 -> "HTTP 200"
      [] status_code = 400 -> "HTTP 400"
      [] status_code = 401 -> "HTTP 401"
      [] status_code = 403 -> "HTTP 403"
      [] status_code = 404 -> "HTTP 404"
      [] status_code = 500 -> "HTTP 500"

_error_from_response(status_code, data) ==
    IF status_code = 401 THEN "Unauthorized: invalid or expired user token"
    ELSE IF status_code = 403 THEN "Forbidden: access denied"
    ELSE Get(data, "error", HttpText(status_code))

\* the body of each REST tool from the request on: the response is parsed
\* before its status is looked at, and every exception becomes str(e)
RestResult(exchange) ==
    IF exchange.kind = "connect_error"
    THEN [success |-> FALSE, error |-> "All connection attempts failed"]
    ELSE IF exchange.body.kind = "text"
    THEN [success |-> FALSE,
          error |-> "Expecting value: line 1 column 1 (char 0)"]
    ELSE LET data == IF exchange.body.kind = "empty" THEN EmptyDict
                     ELSE exchange.body.data
         IN  IF ~is_success(exchange.status_code)
             THEN [success |-> FALSE,
                   error |-> _error_from_response(exchange.status_code, data)]
             ELSE data @@ [success |-> TRUE]

list_user_conversations(exchange) == RestResult(exchange)

get_conversation_messages(exchange) == RestResult(exchange)

send_conversation_message(exchange) == RestResult(exchange)

get_conversation_by_id(exchange) == RestResult(exchange)

\* the provider argument of get_llm: the three it knows and one it does not
Providers == {"auto", "perplexity", "openai", "invalid_provider"}

\* the arguments of filter_candidates_basic: lists over the pool, the
\* subject's own profile possibly among the candidates and more than once
PrefilterArguments ==
    [candidates : ListsUpTo(MaxCands), user : SubjectProfiles,
     radius_meters : {1000, 200000}, min_score_threshold : {0, 30, 50}]

\* eleven interests: one more than the shared-interest bonus counts
ManyInterests ==
    {"ai", "chess", "music", "gaming", "sports", "art", "film", "hiking",
     "cooking", "robotics", "debate"}

\* "absent" stands for a key the record does not have
ScoreRecord(major, interests, year, bio) ==
    (IF major = "absent" THEN EmptyDict ELSE [major |-> major])
    @@ (IF interests = {"absent"} THEN EmptyDict
        ELSE [interests |-> interests])
    @@ (IF year = 0 THEN EmptyDict ELSE [year |-> year])
    @@ (IF bio = "absent" THEN EmptyDict ELSE [bio |-> bio])

\* records as the scoring function receives them; year 0 stands for no year
ScoreRecords ==
    { ScoreRecord(major, interests, year, bio) :
        major \in {"absent", "CS", "Math"},
        interests \in {{"absent"}, {}, {"ai"}, ManyInterests},
        year \in {0, 1, 2, 4, YearAsText},
        bio \in {"absent", "", "I love CS"} }

\* pairs of points at campus distance, far apart and antipodal (45 and
\* 87.5 degrees against their antipodes), with radii from 1 km to more than
\* half the circumference
DistanceArguments ==
    [user_lat : {0, 5003772, 9729556}, user_lng : {0},
     candidate_lat : {0, 1000, 3000, -5003772, -9729556},
     candidate_lng : {0, 180},
     max_distance_m : {1000, 1500, 5000, 25000000}]

ToolNames ==
    ChatTools \cup {"get_llm", "filter_candidates_basic",
                    "calculate_base_compatibility_score",
                    "calculate_distance_score"}

ToolArguments(tool) ==
    CASE tool \in ChatTools -> Exchanges
      [] tool = "get_llm" -> [provider : Providers, config : Configs]
      [] tool = "filter_candidates_basic" -> PrefilterArguments
      [] tool = "calculate_base_compatibility_score" ->
             [user : ScoreRecords, candidate : ScoreRecords]
      [] tool = "calculate_distance_score" -> DistanceArguments

ToolsInit ==
    /\ pipeline = "tools"
    /\ pc \in ToolNames
    /\ input \in ToolArguments(pc)
    /\ st = EmptyDict
    /\ calls = <<>>
    /\ exc = "none"
    /\ ran = <<>>
    /\ _ctx = <<>>
    /\ AI_SERVICE_TOKEN = ""
    /\ authorization = <<>>
    /\ response = <<>>

\* the function returns result
Returns(result) ==
    /\ st' = [result |-> result]
    /\ pc' = "returned"
    /\ ran' = <<pc>>
    /\ UNCHANGED <<pipeline, calls, exc, input, _ctx, server>>

\* the function raises e
Raises(e) ==
    /\ exc' = e
    /\ pc' = "raised"
    /\ ran' = <<pc>>
    /\ UNCHANGED <<pipeline, st, calls, input, _ctx, server>>

CallListUserConversations ==
    /\ pipeline = "tools" /\ pc = "list_user_conversations"
    /\ Returns(list_user_conversations(input))

CallGetConversationMessages ==
    /\ pipeline = "tools" /\ pc = "get_conversation_messages"
    /\ Returns(get_conversation_messages(input))

CallSendConversationMessage ==
    /\ pipeline = "tools" /\ pc = "send_conversation_message"
    /\ Returns(send_conversation_message(input))

CallGetConversationById ==
    /\ pipeline = "tools" /\ pc = "get_conversation_by_id"
    /\ Returns(get_conversation_by_id(input))

CallGetLlm ==
    /\ pipeline = "tools" /\ pc = "get_llm"
    /\ LET client == get_llm(input.provider, input.config)
       IN  IF client = "ValueError" THEN Raises("ValueError")
           ELSE Returns(client)

CallFilterCandidatesBasic ==
    /\ pipeline = "tools" /\ pc = "filter_candidates_basic"
    /\ Returns(filter_candidates_basic(input.candidates, input.user,
                                       input.radius_meters,
                                       input.min_score_threshold))

CallCalculateBaseCompatibilityScore ==
    /\ pipeline = "tools" /\ pc = "calculate_base_compatibility_score"
    /\ Returns(calculate_base_compatibility_score(input.user,
                                                  input.candidate))

\* the call of haversine_meters is the first statement of the function
CallCalculateDistanceScore ==
    /\ pipeline = "tools" /\ pc = "calculate_distance_score"
    /\ IF math_domain_error(input.user_lat, input.user_lng,
                            input.candidate_lat, input.candidate_lng)
       THEN Raises("ValueError")
       ELSE Returns(calculate_distance_score(input.user_lat, input.user_lng,
                        input.candidate_lat, input.candidate_lng,
                        input.max_distance_m))

ToolsNext ==
    \/ CallGetLlm
    \/ CallCalculateDistanceScore
    \/ CallCalculateBaseCompatibilityScore
    \/ CallFilterCandidatesBasic
    \/ CallListUserConversations
    \/ CallGetConversationMessages
    \/ CallSendConversationMessage
    \/ CallGetConversationById

ToolsSpec == ToolsInit /\ [][ToolsNext]_vars

(***************************************************************************)
(* Vocabulary of the properties.                                           *)
(***************************************************************************)
FinalizeStage(p) ==
    CASE p = "matching" -> "finalize_response"
      [] p = "safety" -> "finalize_safety_response"
      [] p = "onboarding" -> "finalize_onboarding"
      [] p = "events_communities" -> "finalize_recommendations"
      [] p = "chat_assistant" -> "finalize_response"

\* the pipelines whose stages read the error field
ShortCircuiting == {"matching", "events_communities", "chat_assistant"}

\* a stage after the entry stage and before finalize is about to run on a
\* state that some stage returned with a non-empty error
FailedBeforeFinalize ==
    /\ HasError(st)
    /\ pc \notin {Entry(pipeline), FinalizeStage(pipeline), "done", "raised"}

\* the calls made by the step being taken
NewCalls == SubSeq(calls', Len(calls) + 1, Len(calls'))

SameError(s, t) == Get(s, "error", "") = Get(t, "error", "")
                   /\ (Has(s, "error") <=> Has(t, "error"))

C2_ErrorFreezesState ==
    [][ (pipeline \in ShortCircuiting /\ FailedBeforeFinalize)
        => st' = st ]_vars

(***************************************************************************)
(* C3: once the error field is non-empty it stays non-empty after every    *)
(* later stage, finalize included.                                         *)
(***************************************************************************)
C3_ErrorNeverCleared == [][ HasError(st) => HasError(st') ]_vars

C3_Witness ==
    /\ pc = "done" /\ HasError(st) /\ ~Has(input, "error")
    /\ pipeline = "matching"
    /\ Has(st, "final_matches")

(***************************************************************************)
(* C4: in the matching, safety, onboarding and events/communities          *)
(* pipelines a failed augmentation call makes its stage substitute the     *)
(* hard-coded fallback value, leave error as it was (unset), and hand over *)
(* to the next stage of the run.                                           *)
(***************************************************************************)
FailedAugCalls == {i \in DOMAIN NewCalls :
                      NewCalls[i].op \in AugOps /\ ~NewCalls[i].ok}

C4_Fallback ==
    CASE pipeline = "matching" ->
            /\ pc' = "finalize_response"
            /\ \A i \in FailedAugCalls :
                  LET m == st["top_matches"][i]
                  IN  st'["llm_reasoning"][m.uid] =
                        [why_compatible |->
                             "Based on shared interests and proximity.",
                         conversation_starter |->
                             "Hey! Want to connect on CampusConnect?",
                         adjusted_score |-> m.deterministic_score]
      [] pipeline = "safety" ->
            /\ pc' = "determine_action"
            /\ st'["flags"] = st["flags"]
            /\ st'["confidence"] =
                  IF MaxConfidence(st["flags"]) = 0 THEN 50
                  ELSE MaxConfidence(st["flags"])
            /\ Has(st', "recommended_action") <=> Has(st, "recommended_action")
      [] pipeline = "onboarding" ->
            /\ pc' = "save_progress"
            /\ st'["next_prompt"] = "What would you like to share next?"
            /\ st'["guidance"] =
                  "Provide the next piece of profile information."
      [] pipeline = "events_communities" ->
            /\ pc' = "finalize_recommendations"
            /\ st'["reasoning"] = EmptyDict
      [] OTHER -> TRUE

FailedAugIn(log) == \E i \in DOMAIN log : log[i].op \in AugOps /\ ~log[i].ok

FailedStoreIn(log) ==
    \E i \in DOMAIN log : log[i].op \in StoreOps /\ ~log[i].ok

C5_StoreFailureSetsError ==
    FailedStoreIn(calls)
    => /\ exc # "FirestoreUnavailableError"
       /\ pc = "done" => HasError(st)

(***************************************************************************)
(* C6: a matching run that ends with a non-empty error returns             *)
(* final_matches = [], response_metadata.success = false and               *)
(* response_metadata.error = error, and has saved no match.                *)
(***************************************************************************)
C6_MatchingErrorResponse ==
    (pipeline = "matching" /\ pc = "done" /\ HasError(st))
    => /\ st["final_matches"] = <<>>
       /\ st["response_metadata"].success = FALSE
       /\ st["response_metadata"].error = st["error"]
       /\ \A i \in DOMAIN calls : calls[i].op # "save_match"

C6_Witness ==
    /\ pipeline = "matching" /\ pc = "done" /\ ~Has(input, "error")
    /\ Get(st, "error", "") = "User profile not found: u0"
    /\ calls = <<Call("get_user_profile", "u0", TRUE)>>

(***************************************************************************)
(* C7: a safety run whose content contains a banned word (in any case, as  *)
(* a substring) ends with recommended_action = "reject".                   *)
(***************************************************************************)
ContainsBannedWord(content) ==
    \E n \in DOMAIN BANNED_WORDS : Contains(lower(content), BANNED_WORDS[n])

C7_BannedWordRejected ==
    (pipeline = "safety" /\ pc = "done"
     /\ ContainsBannedWord(input["content"]))
    => st["recommended_action"] = "reject"

(***************************************************************************)
(* C8: the final recommended_action of a safety run is reject if a final   *)
(* flag is explicit or phishing, otherwise review if a final flag has      *)
(* confidence >= 0.7, otherwise allow.                                     *)
(***************************************************************************)
RuleAction(flags) ==
    IF \E i \in DOMAIN flags : flags[i].flag \in {"explicit", "phishing"}
    THEN "reject"
    ELSE IF \E i \in DOMAIN flags : Get(flags[i], "confidence", 0) >= 70
    THEN "review"
    ELSE "allow"

C8_ActionFollowsFlags ==
    (pipeline = "safety" /\ pc = "done")
    => st["recommended_action"] = RuleAction(st["flags"])

(***************************************************************************)
(* C9: determine_step returns the first incomplete step in the order       *)
(* identity, academic, bio/interests, photo, location, and 5 when all are  *)
(* complete.                                                               *)
(***************************************************************************)
StepComplete(fd, k) ==
    CASE k = 1 -> ~FalsyStr(fd, "name") /\ ~FalsySeq(fd, "email")
      [] k = 2 -> ~FalsyStr(fd, "major") /\ ~FalsyInt(fd, "year")
      [] k = 3 -> ~FalsyStr(fd, "bio") /\ ~FalsySet(fd, "interests")
      [] k = 4 -> ~FalsyStr(fd, "photoUrl")
      [] k = 5 -> Has(fd, "locationLat") /\ Has(fd, "locationLng")

FirstIncomplete(fd) ==
    LET incomplete == {k \in 1..5 : ~StepComplete(fd, k)}
    IN  IF incomplete = {} THEN 5
        ELSE CHOOSE k \in incomplete : \A j \in incomplete : k <= j

DeterminedStep ==
    pipeline = "onboarding" /\ pc # "determine_current_step"

\* the claim as written: for every input state
C9_Original ==
    DeterminedStep
    => st["current_step"] = FirstIncomplete(input["form_data"])

\* as amended: an input that carries a non-zero current_step keeps it
C9_DetermineStep ==
    DeterminedStep
    => IF Get(input, "current_step", 0) = 0
       THEN st["current_step"] = FirstIncomplete(input["form_data"])
       ELSE st["current_step"] = input["current_step"]

C9_Witness ==
    /\ pipeline = "onboarding" /\ pc = "validate_step_data"
    /\ ~Has(input, "current_step")
    /\ Has(input["form_data"], "name") /\ Has(input["form_data"], "email")
    /\ ~Has(input["form_data"], "major")
    /\ st["current_step"] = 2

(***************************************************************************)
(* C10: in a matching run without error, top_matches is the first 10       *)
(* entries of scored_matches in descending deterministic_score, equal      *)
(* scores in their original order.                                         *)
(***************************************************************************)
\* the place of entry i of scored in the stable descending order
RankOf(scored, i) ==
    1 + Cardinality({j \in DOMAIN scored :
            \/ scored[j].deterministic_score > scored[i].deterministic_score
            \/ /\ scored[j].deterministic_score = scored[i].deterministic_score
               /\ j < i})

C10_StableTopTen ==
    (pipeline = "matching" /\ ~HasError(st) /\ Has(st, "top_matches"))
    => LET scored == st["scored_matches"]
           top == st["top_matches"]
       IN  /\ Len(top) = Min(Len(scored), 10)
           /\ \A i \in DOMAIN scored :
                 RankOf(scored, i) <= 10 => top[RankOf(scored, i)] = scored[i]

C10_Witness ==
    /\ pipeline = "matching" /\ pc = "generate_reasoning" /\ ~HasError(st)
    /\ Len(st["scored_matches"]) > 10
    /\ Len(st["top_matches"]) = 10
    /\ \E i, j \in DOMAIN st["top_matches"] :
          /\ i < j
          /\ st["top_matches"][i].deterministic_score
                = st["top_matches"][j].deterministic_score
    /\ st["top_matches"][1].deterministic_score
          > st["top_matches"][10].deterministic_score

(***************************************************************************)
(* C11: every run ends (done, or raised when a stage raises), and a run    *)
(* that ends without a stage raising has invoked its finalize stage        *)
(* exactly once, as the last stage, with or without an error in the state. *)
(***************************************************************************)
FinalizeRuns ==
    {i \in DOMAIN ran : ran[i] = FinalizeStage(pipeline)}

C11_FinalizeOnceLast ==
    /\ <>(pc \in {"done", "raised"})
    /\ [](pc = "done" => FinalizeRuns = {Len(ran)} /\ ran # <<>>)
    /\ [](FinalizeRuns # {} => pc \in {"done", "raised"})

C11_Witness ==
    /\ pipeline = "chat_assistant" /\ pc = "done" /\ HasError(st)
    /\ ran = <<"validate_input", "finalize_response">>

(***************************************************************************)
(* C12: in a run of any of the five pipelines no stage is invoked twice,   *)
(* and the stages invoked start with the entry stage.                      *)
(***************************************************************************)
C12_NoStageTwice ==
    /\ \A i, j \in DOMAIN ran : ran[i] = ran[j] => i = j
    /\ ran # <<>> => ran[1] = Entry(pipeline)

C12_Witness ==
    /\ pipeline = "chat_assistant" /\ pc = "done"
    /\ ran = <<"validate_input", "summarise_conversation",
               "finalize_response">>

(***************************************************************************)
(* C13: a chat assistant run whose augmentation call (summary or draft)    *)
(* failed ends with summary, respectively draft_reply, set and with the    *)
(* error field unset.                                                      *)
(***************************************************************************)
C13_ChatAugFailureFallsBack ==
    (pipeline = "chat_assistant" /\ pc = "done" /\ FailedAugIn(calls))
    => /\ ~HasError(st)
       /\ "summarise_conversation" \in Range(ran) => Has(st, "summary")
       /\ "generate_draft_reply" \in Range(ran) => Has(st, "draft_reply")

(***************************************************************************)
(* C14: a missing augmentation credential is never fatal to a run: no run  *)
(* ends by the gateway's configuration error being raised out of it.       *)
(***************************************************************************)
C14_MissingCredentialNotFatal == ~(pc = "raised" /\ exc = "ValueError")

(***************************************************************************)
(* C15: an exception the stage's contract does not anticipate (here int()  *)
(* rejecting the radius preference inside filter_candidates) is raised out *)
(* of the run and leaves no error field behind in a returned state.        *)
(***************************************************************************)
C15_UnexpectedPropagates ==
    [][ (/\ pipeline = "matching" /\ pc = "filter_candidates"
         /\ ~HasError(st) /\ int_raises(Radius(st)))
        => pc' = "raised" /\ exc' # "none" /\ ~HasError(st') ]_vars

(***************************************************************************)
(* C16: every score reported in final_matches of a matching run lies       *)
(* within [0,100].                                                         *)
(***************************************************************************)
C16_ReportedScoresInRange ==
    (pipeline = "matching" /\ Has(st, "final_matches"))
    => \A i \in DOMAIN st["final_matches"] :
          /\ st["final_matches"][i].score >= 0
          /\ st["final_matches"][i].score <= 100

(***************************************************************************)
(* C17: when one built chat assistant graph serves runs with different     *)
(* auth_token inputs, every backend call of a run carries the auth_token   *)
(* of that run's own input.                                                *)
(***************************************************************************)
BackendOps ==
    {"list_user_conversations", "get_conversation_by_id",
     "get_conversation_messages"}

C17_CallsCarryOwnToken ==
    \A i \in DOMAIN calls :
        calls[i].op \in BackendOps => calls[i].arg = input["auth_token"]

(***************************************************************************)
(* C18: in a safety run classify_uncertain makes the augmentation call if  *)
(* and only if no flag in the state it receives has confidence >= 0.75.    *)
(***************************************************************************)
AugCallIn(log) == \E i \in DOMAIN log : log[i].op \in AugOps

HasConfidentFlag(state) ==
    \E i \in DOMAIN Get(state, "flags", <<>>) :
        Get(state["flags"][i], "confidence", 0) >= 75

C18_AugmentIffUncertain ==
    [][ (pipeline = "safety" /\ pc = "classify_uncertain")
        => (AugCallIn(NewCalls) <=> ~HasConfidentFlag(st)) ]_vars

(***************************************************************************)
(* C19: in a safety run every stage leaves the flags list it received in   *)
(* place, in order, and only appends to it; flags given in the input are   *)
(* kept the same way.                                                      *)
(***************************************************************************)
IsPrefix(s, t) == Len(s) <= Len(t) /\ SubSeq(t, 1, Len(s)) = s

C19_FlagsOnlyGrow ==
    [][ pipeline = "safety"
        => IsPrefix(Get(st, "flags", <<>>), Get(st', "flags", <<>>)) ]_vars

C19_Witness ==
    /\ pipeline = "safety" /\ pc = "done"
    /\ Get(input, "flags", <<>>) # <<>>
    /\ Len(st["flags"]) >= Len(input["flags"]) + 2
    /\ \E i \in DOMAIN st["flags"] : st["flags"][i].rule = "banned_word"
    /\ \E i \in DOMAIN st["flags"] : st["flags"][i].rule = "keyword_match"

(***************************************************************************)
(* C20: a safety run on nothing but a content that contains a spam keyword *)
(* and neither a phishing pattern nor a banned word ends with the keyword  *)
(* rule's spam flag of confidence 0.8, with no augmentation call made and  *)
(* with recommended_action = "review".                                     *)
(***************************************************************************)
ContainsSpamKeyword(content) ==
    \E n \in DOMAIN SPAM_KEYWORDS : Contains(lower(content), SPAM_KEYWORDS[n])

ContainsPhishingPattern(content) ==
    \E n \in DOMAIN PHISHING_PATTERNS :
        SearchDotStar(PHISHING_PATTERNS[n].first,
                      PHISHING_PATTERNS[n].second, lower(content))

\* the request carries the content and none of the pipeline's result keys
SpamOnlyRun ==
    /\ pipeline = "safety"
    /\ ~Has(input, "flags") /\ ~Has(input, "recommended_action")
    /\ ContainsSpamKeyword(input["content"])
    /\ ~ContainsPhishingPattern(input["content"])
    /\ ~ContainsBannedWord(input["content"])

AfterValidateInput ==
    pipeline = "chat_assistant" /\ ran = <<"validate_input">>

C21_RouteKeyDeclared ==
    AfterValidateInput => route_after_validate(st) \in DOMAIN RouteTargets

\* an action given in another case and padded is routed by its
\* normalised key
C21_Witness ==
    /\ AfterValidateInput
    /\ Get(input, "action", "") = " Draft_Reply "
    /\ route_after_validate(st) = "draft_reply"
    /\ pc = "generate_draft_reply"

\* a rejected action is routed by the error field, not by its own name
C21_WitnessRejected ==
    /\ AfterValidateInput
    /\ Get(input, "action", "") = "delete_all"
    /\ route_after_validate(st) = "finalize_response"

(***************************************************************************)
(* C22. In a chat assistant run whose input has an empty auth_token or     *)
(* user_id, or an empty conversation_id with the action                    *)
(* summarise_conversation or draft_reply, or an action that is not one of  *)
(* the three valid actions, validate_input sets error and the run goes     *)
(* straight to finalize: it makes no backend call and no augmentation      *)
(* call.  The action and the conversation_id are taken as the stage reads  *)
(* them: trimmed, the action lower-cased, an absent action standing for    *)
(* list_conversations.                                                     *)
(***************************************************************************)
ActionRead(i) ==
    StripLower(IF Get(i, "action", "") = "" THEN "list_conversations"
               ELSE i["action"])

InvalidChatInput(i) ==
    \/ Get(i, "auth_token", "") = ""
    \/ Get(i, "user_id", "") = ""
    \/ /\ ActionRead(i) \in {"summarise_conversation", "draft_reply"}
       /\ Strip(Get(i, "conversation_id", "")) = ""
    \/ ActionRead(i) \notin
           {"list_conversations", "summarise_conversation", "draft_reply"}

C22_InvalidInputShortCircuits ==
    (pipeline = "chat_assistant" /\ InvalidChatInput(input)) =>
        /\ calls = <<>>
        /\ exc = "none"
        /\ IsPrefix(ran, <<"validate_input", "finalize_response">>)
        /\ ran # <<>> => HasError(st)
        /\ ran = <<"validate_input">> => pc = "finalize_response"

\* a draft is asked for without a conversation, by an authenticated user:
\* the run has ended through finalize with the error and without a call
C22_Witness ==
    /\ pipeline = "chat_assistant"
    /\ Get(input, "auth_token", "") # "" /\ Get(input, "user_id", "") # ""
    /\ ActionRead(input) = "draft_reply"
    /\ Strip(Get(input, "conversation_id", "")) = ""
    /\ ~Has(input, "error")
    /\ pc = "done"
    /\ ran = <<"validate_input", "finalize_response">>
    /\ HasError(st) /\ calls = <<>>

(***************************************************************************)
(* C23. In a matching run a failed save_match write is caught inside       *)
(* finalize: the run ends without raising and without an error field, and  *)
(* final_matches still carries every top match, the ones after the failed  *)
(* write included, with response_metadata.success = true.                  *)
(***************************************************************************)
FailedSaveIn(log) ==
    \E i \in DOMAIN log : log[i].op = "save_match" /\ ~log[i].ok

SaveCalls(log) == SelectSeq(log, LAMBDA c : c.op = "save_match")

C23_SaveFailureCaught ==
    (pipeline = "matching" /\ FailedSaveIn(calls)) =>
        /\ pc = "done" /\ exc = "none"
        /\ ~HasError(st)
        /\ st["response_metadata"].success
        /\ Len(st["final_matches"]) = Len(st["top_matches"])
        /\ \A i \in DOMAIN st["top_matches"] :
              st["final_matches"][i].id = st["top_matches"][i]["uid"]
        /\ Len(SaveCalls(calls)) = Len(st["top_matches"])

\* the write of the first of two matches fails and the write of the
\* second succeeds: both matches are returned
C23_Witness ==
    /\ pipeline = "matching" /\ pc = "done"
    /\ Len(SaveCalls(calls)) = 2
    /\ ~SaveCalls(calls)[1].ok /\ SaveCalls(calls)[2].ok
    /\ Len(st["final_matches"]) = 2
    /\ st["response_metadata"].success
    /\ ~HasError(st)

(***************************************************************************)
(* C24. A request to POST /run-graph naming a graph that is not one of     *)
(* matching, safety, onboarding, events_communities, chat_assistant is     *)
(* answered with HTTP 400, and no pipeline is built or run for it.         *)
(***************************************************************************)
UnknownGraph == pipeline \notin Pipelines

NothingBuiltOrRun ==
    pc \in {"received", "rejected"} /\ ran = <<>> /\ calls = <<>>

\* as stated: whatever the request's Authorization header
C24_Original ==
    UnknownGraph =>
        /\ NothingBuiltOrRun
        /\ response # <<>> => response[1].status_code = 400

\* the request passes the service token check when no token is configured
\* or its Authorization header is the configured bearer token
Authorized ==
    AI_SERVICE_TOKEN = "" \/ authorization = Bearer(AI_SERVICE_TOKEN)

\* amended: a request that passes the service token check gets 400; one
\* that does not gets 401; in both cases nothing is built or run
C24_UnknownGraphRejected ==
    UnknownGraph =>
        /\ NothingBuiltOrRun
        /\ response # <<>> =>
              /\ response[1].status_code = IF Authorized THEN 400 ELSE 401
              /\ ~response[1].content.success

\* the help graph exists in the repository but is not routed: an
\* authorized request for it is answered 400
C24_Witness ==
    /\ pipeline = "help"
    /\ AI_SERVICE_TOKEN # "" /\ Authorized
    /\ response # <<>>
    /\ response[1].status_code = 400
    /\ response[1].content.error[1] = "Unknown graph: "
    /\ NothingBuiltOrRun

(***************************************************************************)
(* C25. For each of the five routed graph names, when graph.invoke returns *)
(* without raising, POST /run-graph answers 200 with success = true, graph *)
(* = the requested name and the returned state as data, also when that     *)
(* state carries a non-empty error field.                                  *)
(***************************************************************************)
C25_ReturnedRunIsSuccess ==
    (pipeline \in Pipelines /\ pc = "done" /\ response # <<>>) =>
        /\ response[1].status_code = 200
        /\ response[1].content.success
        /\ response[1].content.graph = pipeline
        /\ response[1].content.data = st

\* the subject profile of a matching request is not found: the run returns
\* a state with the error and the answer is still 200, success
C25_Witness ==
    /\ pipeline = "matching" /\ pc = "done"
    /\ HasError(st)
    /\ \E i \in DOMAIN calls : calls[i].op = "get_user_profile"
    /\ response # <<>>
    /\ response[1].status_code = 200
    /\ response[1].content.success
    /\ HasError(response[1].content.data)

(***************************************************************************)
(* C26. The error text POST /run-graph returns for a run that raised does  *)
(* not contain the message of the exception: two runs that differ only in  *)
(* that message get the same text.                                         *)
(***************************************************************************)
C26_ErrorTextGeneric ==
    (pc = "raised" /\ response # <<>>) =>
        \A message \in ExcMessages(exc) :
            response[1] = ExecutionFailure(exc, message)

(***************************************************************************)
(* C27. Every chat REST tool answers a backend response of status 401 with *)
(* success = false and the fixed unauthorized text, one of status 403 with *)
(* success = false and the fixed forbidden text; the two texts differ, and *)
(* no response of another non-success status gives either of them.         *)
(***************************************************************************)
UnauthorizedText == "Unauthorized: invalid or expired user token"

ForbiddenText == "Forbidden: access denied"

ToolReturned(tools) ==
    pipeline = "tools" /\ pc = "returned" /\ ran[1] \in tools

C27_AuthStatusesMapped ==
    (ToolReturned(ChatTools) /\ input.kind = "response") =>
        /\ UnauthorizedText # ForbiddenText
        /\ input.status_code = 401 =>
              ~st.result.success /\ st.result.error = UnauthorizedText
        /\ input.status_code = 403 =>
              ~st.result.success /\ st.result.error = ForbiddenText
        /\ (~is_success(input.status_code)
            /\ input.status_code \notin {401, 403}) =>
              /\ ~st.result.success
              /\ st.result.error \notin {UnauthorizedText, ForbiddenText}

\* the same with the responses whose body is not JSON left out
C27_JsonResponsesMapped ==
    (ToolReturned(ChatTools) /\ input.kind = "response"
     /\ input.body.kind # "text") =>
        /\ input.status_code = 401 =>
              ~st.result.success /\ st.result.error = UnauthorizedText
        /\ input.status_code = 403 =>
              ~st.result.success /\ st.result.error = ForbiddenText
        /\ (~is_success(input.status_code)
            /\ input.status_code \notin {401, 403}) =>
              /\ ~st.result.success
              /\ st.result.error \notin {UnauthorizedText, ForbiddenText}

(***************************************************************************)
(* C28. get_llm with provider "auto" returns the Perplexity client when    *)
(* the Perplexity key is configured, otherwise the OpenAI client when the  *)
(* OpenAI key is configured, otherwise raises ValueError and creates no    *)
(* client; an explicit provider whose key is missing and an unknown        *)
(* provider name raise ValueError too.                                     *)
(***************************************************************************)
ToolDone(tool) ==
    pipeline = "tools" /\ pc \in {"returned", "raised"} /\ ran = <<tool>>

ConfigurationError ==
    pc = "raised" /\ exc = "ValueError" /\ st = EmptyDict /\ calls = <<>>

ClientReturned(client) ==
    pc = "returned" /\ exc = "none" /\ st = [result |-> client]

C28_ProviderSelection ==
    ToolDone("get_llm") =>
        LET primary == input.config.PERPLEXITY_API_KEY
            secondary == input.config.OPENAI_API_KEY
        IN  /\ input.provider = "auto" =>
                  /\ primary => ClientReturned("perplexity")
                  /\ (~primary /\ secondary) => ClientReturned("openai")
                  /\ (~primary /\ ~secondary) => ConfigurationError
            /\ (input.provider = "perplexity" /\ ~primary)
                  => ConfigurationError
            /\ (input.provider = "openai" /\ ~secondary)
                  => ConfigurationError
            /\ input.provider \notin {"auto", "perplexity", "openai"}
                  => ConfigurationError

\* both keys are configured and the provider is "auto": the Perplexity
\* client is returned
C28_Witness ==
    /\ ToolDone("get_llm")
    /\ input.provider = "auto"
    /\ input.config.PERPLEXITY_API_KEY /\ input.config.OPENAI_API_KEY
    /\ ClientReturned("perplexity")

\* no key is configured: "auto" raises and no client exists
C28_WitnessNoKey ==
    /\ ToolDone("get_llm")
    /\ input.provider = "auto"
    /\ ~input.config.PERPLEXITY_API_KEY /\ ~input.config.OPENAI_API_KEY
    /\ ConfigurationError

(***************************************************************************)
(* C29. For every candidate list and every subject record, the list        *)
(* filter_candidates_basic returns contains no candidate whose uid is the  *)
(* subject's uid.                                                          *)
(***************************************************************************)
C29_SubjectNeverReturned ==
    ToolDone("filter_candidates_basic") =>
        /\ pc = "returned"
        /\ \A i \in DOMAIN st.result :
              st.result[i]["uid"] # input.user["uid"]

\* the subject's own profile is among the candidates, within the radius and
\* above the threshold, next to another candidate that is returned
C29_Witness ==
    /\ ToolDone("filter_candidates_basic")
    /\ Len(input.candidates) = 2
    /\ input.candidates[1]["uid"] = input.user["uid"]
    /\ HasLocation(input.user)
    /\ calculate_base_compatibility_score(input.user, input.candidates[1])
          >= input.min_score_threshold
    /\ Len(st.result) = 1
    /\ st.result[1] = input.candidates[2]

(***************************************************************************)
(* C30. calculate_base_compatibility_score(user, candidate) is             *)
(* min(100, 40 + min(3 * shared interests, 30) + 15 if the majors are      *)
(* identical + 10 if both years are integers at most 1 apart + 5 if both   *)
(* bios are non-empty); two records with major CS, no interests and year 1 *)
(* score 65, and records with different majors, no shared interest and     *)
(* years 3 apart score exactly 40.                                         *)
(***************************************************************************)
SharedInterests(a, b) ==
    Cardinality(Get(a, "interests", {}) \cap Get(b, "interests", {}))

MajorBonus(a, b) ==
    IF Get(a, "major", None) = Get(b, "major", None) THEN 15 ELSE 0

YearBonus(a, b) ==
    IF /\ Has(a, "year") /\ Has(b, "year")
       /\ a["year"] # YearAsText /\ b["year"] # YearAsText
       /\ a["year"] - b["year"] \in -1..1
    THEN 10 ELSE 0

BioBonus(a, b) ==
    IF Get(a, "bio", "") # "" /\ Get(b, "bio", "") # "" THEN 5 ELSE 0

StatedScore(a, b) ==
    Min(100, 40 + Min(3 * SharedInterests(a, b), 30) + MajorBonus(a, b)
             + YearBonus(a, b) + BioBonus(a, b))

ScenarioRecord(major, year) ==
    [major |-> major, interests |-> {}, year |-> year]

C30_ScoreFormula ==
    ToolDone("calculate_base_compatibility_score") =>
        /\ pc = "returned"
        /\ st.result = StatedScore(input.user, input.candidate)
        /\ (input.user = ScenarioRecord("CS", 1)
            /\ input.candidate = ScenarioRecord("CS", 1)) => st.result = 65
        /\ (input.user = ScenarioRecord("CS", 1)
            /\ input.candidate = ScenarioRecord("Math", 4)) => st.result = 40

\* the first end-to-end scenario: 40 + 15 + 10 = 65
C30_Witness ==
    /\ ToolDone("calculate_base_compatibility_score")
    /\ input.user = ScenarioRecord("CS", 1)
    /\ input.candidate = ScenarioRecord("CS", 1)
    /\ st.result = 65

\* eleven shared interests count as ten, and every bonus together gives 100
C30_WitnessCapped ==
    /\ ToolDone("calculate_base_compatibility_score")
    /\ SharedInterests(input.user, input.candidate) = 11
    /\ st.result = 100

(***************************************************************************)
(* C31. For every pair of records, whichever of interests, major, year and *)
(* bio each of them has, calculate_base_compatibility_score returns an     *)
(* integer in [0,100].                                                     *)
(***************************************************************************)
C31_ScoreInRange ==
    ToolDone("calculate_base_compatibility_score") =>
        /\ pc = "returned" /\ exc = "none"
        /\ st.result \in 0..100

\* neither record has any of the four fields: the score is 55, the base
\* plus the bonus for two majors that are both None
C31_Witness ==
    /\ ToolDone("calculate_base_compatibility_score")
    /\ input.user = EmptyDict /\ input.candidate = EmptyDict
    /\ st.result = 55

(***************************************************************************)
(* C32. calculate_distance_score returns exactly 1.0 whenever the distance *)
(* between the two points is at most max_distance_m; in particular for two *)
(* identical points, whatever the radius.                                  *)
(***************************************************************************)
DistanceOfInput ==
    haversine_meters(input.user_lat, input.user_lng,
                     input.candidate_lat, input.candidate_lng)

SamePoint ==
    input.user_lat = input.candidate_lat
    /\ input.user_lng = input.candidate_lng

C32_OneWithinRadius ==
    (ToolDone("calculate_distance_score")
     /\ DistanceOfInput <= input.max_distance_m) =>
        pc = "returned" /\ st.result = One

\* the same for the calls that return, and for identical points always
C32_OneWithinRadiusIfReturned ==
    ToolDone("calculate_distance_score") =>
        /\ (pc = "returned" /\ DistanceOfInput <= input.max_distance_m)
              => st.result = One
        /\ SamePoint => pc = "returned" /\ st.result = One

(***************************************************************************)
(* C33. For any two points and any positive max_distance_m the multiplier  *)
(* of calculate_distance_score lies in [0,1]: it is never negative (it is  *)
(* 0 once the distance reaches twice max_distance_m), never above 1, and   *)
(* for a fixed pair of points it does not decrease when max_distance_m     *)
(* grows; this includes antipodal points.                                  *)
(***************************************************************************)
Radii == {a.max_distance_m : a \in DistanceArguments}

\* m1 <= m2 for two multipliers held as fractions with positive denominators
FractionLeq(m1, m2) == m1.num * m2.den <= m2.num * m1.den

MultiplierAt(radius) ==
    calculate_distance_score(input.user_lat, input.user_lng,
                             input.candidate_lat, input.candidate_lng, radius)

MultiplierInUnitInterval ==
    /\ st.result.den > 0
    /\ 0 <= st.result.num /\ st.result.num <= st.result.den
    /\ DistanceOfInput >= 2 * input.max_distance_m => st.result.num = 0
    /\ \A radius \in Radii :
          radius >= input.max_distance_m =>
              FractionLeq(st.result, MultiplierAt(radius))

C33_MultiplierInUnitInterval ==
    ToolDone("calculate_distance_score") =>
        pc = "returned" /\ MultiplierInUnitInterval

\* the same for the calls in which haversine_meters returns
C33_MultiplierInUnitIntervalIfReturned ==
    (ToolDone("calculate_distance_score") /\ pc = "returned") =>
        MultiplierInUnitInterval

(***************************************************************************)
(* C34. No run of the chat assistant, on any branch and for any input,     *)
(* sends a message to a conversation: the message-sending REST tool is     *)
(* never invoked, and the draft branch only reads the messages and leaves  *)
(* its draft in draft_reply.                                               *)
(***************************************************************************)
OpsOf(log) == {log[i].op : i \in DOMAIN log}

DraftBranchRan ==
    pipeline = "chat_assistant"
    /\ \E i \in DOMAIN ran : ran[i] = "generate_draft_reply"

C34_NeverSends ==
    pipeline = "chat_assistant" =>
        /\ "send_conversation_message" \notin OpsOf(calls)
        /\ DraftBranchRan =>
              OpsOf(calls) \subseteq {"get_conversation_messages", "chain.invoke"}

\* a finished draft run that read the messages and returned the drafted text
C34_Witness ==
    /\ DraftBranchRan /\ pc = "done"
    /\ Get(st, "draft_reply", "") = "llm draft"
    /\ OpsOf(calls) = {"get_conversation_messages", "chain.invoke"}

(***************************************************************************)
(* C35. In an events/communities run that ends without error, the list of  *)
(* items handed to the augmentation call of generate_reasoning is the list *)
(* (ranked_events or ranked_groups) from which finalize builds             *)
(* ranked_recommendations, for every request_type, an absent one included. *)
(***************************************************************************)
ReasoningCalls ==
    {i \in DOMAIN calls : calls[i].op = "chain.invoke"
                           /\ calls[i].arg = "recommendations_reasoning"}

\* recommendations are the given items, in order, each with a reason added
BuiltFrom(recommendations, items) ==
    /\ Len(recommendations) = Len(items)
    /\ \A i \in DOMAIN items :
          /\ DOMAIN recommendations[i] = DOMAIN items[i] \cup {"reason"}
          /\ \A k \in DOMAIN items[i] : recommendations[i][k] = items[i][k]

EventsRunEndedWell ==
    /\ pipeline = "events_communities" /\ pc = "done"
    /\ ~HasError(st)

C35_ReasonedListIsFinalList ==
    EventsRunEndedWell =>
        \A i \in ReasoningCalls :
            BuiltFrom(st["ranked_recommendations"], calls[i].candidates)

\* the same for the runs whose input names a request_type
C35_ReasonedListIsFinalListIfTyped ==
    (EventsRunEndedWell /\ Has(input, "request_type")) =>
        \A i \in ReasoningCalls :
            BuiltFrom(st["ranked_recommendations"], calls[i].candidates)

(***************************************************************************)
(* C36. No entry of final_matches is the requesting user, a member of the  *)
(* user's accepted, pending or blocked connections, or a user recorded as  *)
(* matched in the last 30 days, for every outcome of the connection and    *)
(* recent-match lookups, their failure included.                           *)
(***************************************************************************)
\* the uids the store holds as connections and recent matches of the user
StoredExclusions ==
    UNION {calls[i].stored :
             i \in {j \in DOMAIN calls :
                       calls[j].op \in {"get_user_connections",
                                        "get_recent_matches"}}}

LookupFailed ==
    \E i \in DOMAIN calls :
        calls[i].op \in {"get_user_connections", "get_recent_matches"}
        /\ ~calls[i].ok

FinalMatchIds ==
    {st["final_matches"][i].id : i \in DOMAIN Get(st, "final_matches", <<>>)}

C36_NoExcludedUserMatched ==
    pipeline = "matching" =>
        /\ input["user_id"] \notin FinalMatchIds
        /\ FinalMatchIds \cap StoredExclusions = {}

\* the same for the runs in which both lookups succeed, and the requesting
\* user in every run
C36_NoExcludedUserMatchedIfLookedUp ==
    pipeline = "matching" =>
        /\ input["user_id"] \notin FinalMatchIds
        /\ ~LookupFailed => FinalMatchIds \cap StoredExclusions = {}

(***************************************************************************)
(* C37. In the final state of every safety run safe is true if and only if *)
(* recommended_action is "allow", for every outcome of the augmentation    *)
(* call (one that returns its own action and is_safe included) and every   *)
(* input state.                                                            *)
(***************************************************************************)
SafetyRunDone == pipeline = "safety" /\ pc = "done"

C37_SafeIffAllow ==
    SafetyRunDone => (st["safe"] <=> st["recommended_action"] = "allow")

\* the same for the runs in which no action came with the input and the
\* augmentation call, if made, returned none
ActionFromOutside ==
    \/ Has(input, "recommended_action")
    \/ \E i \in DOMAIN calls : calls[i].op \in AugOps /\ calls[i].ok

C37_SafeIffAllowIfOwnAction ==
    (SafetyRunDone /\ ~ActionFromOutside) =>
        (st["safe"] <=> st["recommended_action"] = "allow")

(***************************************************************************)
(* C38. In the final state of every onboarding run profile_complete is     *)
(* true only if the form data satisfies the validation rules of all five   *)
(* steps, for every input, one that supplies current_step included.        *)
(***************************************************************************)
OnboardingRunDone == pipeline = "onboarding" /\ pc = "done"

SatisfiesAllSteps(form_data) ==
    \A step \in 1..5 : ValidatorOf(step, form_data) = EmptyDict

C38_CompleteOnlyIfAllStepsValid ==
    (OnboardingRunDone /\ st["profile_complete"]) =>
        SatisfiesAllSteps(Get(st, "form_data", EmptyDict))

\* what a complete profile does satisfy: the rules of the one step validated
C38_CompleteOnlyIfCurrentStepValid ==
    (OnboardingRunDone /\ st["profile_complete"]) =>
        /\ st["current_step"] >= 5
        /\ ValidatorOf(st["current_step"],
                       Get(st, "form_data", EmptyDict)) = EmptyDict

(***************************************************************************)
(* C39. In an onboarding run form data is written to the profile store     *)
(* only after validate_step_data found the current step valid: when        *)
(* validation fails the run makes no store write and no augmentation call, *)
(* sets next_prompt to the fixed fix-the-fields text and ends with         *)
(* profile_complete = false.                                               *)
(***************************************************************************)
StageRan(stage) == \E i \in DOMAIN ran : ran[i] = stage

ValidationFailed ==
    /\ pipeline = "onboarding" /\ StageRan("validate_step_data")
    /\ ~st["is_valid"]

FixTheFields == "Please fix the highlighted fields to continue."

C39_WriteOnlyIfValid ==
    /\ (pipeline = "onboarding" /\ "profiles.set" \in OpsOf(calls)) =>
           (StageRan("validate_step_data") /\ st["is_valid"])
    /\ ValidationFailed =>
           /\ OpsOf(calls) \cap ({"profiles.set"} \cup AugOps) = {}
           /\ pc # "raised"
           /\ StageRan("generate_next_prompt") =>
                  st["next_prompt"] = FixTheFields
           /\ pc = "done" => ~st["profile_complete"]

\* a finished run whose step was found invalid
C39_Witness ==
    /\ ValidationFailed /\ pc = "done"
    /\ st["validation_errors"] # EmptyDict
    /\ st["next_prompt"] = FixTheFields
    /\ ~st["profile_complete"]
    /\ calls = <<>>

(***************************************************************************)
(* C40. In a matching run, filter and score using the same radius          *)
(* preference, every entry of scored_matches has distance_multiplier 1.0   *)
(* and deterministic_score equal to its base_score, which is at least the  *)
(* minScore preference.                                                    *)
(***************************************************************************)
\* the minScore preference as the request states it, 30 when it states none
StatedMinScore ==
    Get(Get(input, "preferences", EmptyDict), "minScore", 30)

\* score >= preference, for the preferences a request carries here
AtLeast(score, preference) ==
    IF preference = FortyAndAHalf THEN 2 * score >= 81
    ELSE score >= preference

ScoredMatches ==
    IF pipeline = "matching" THEN Get(st, "scored_matches", <<>>) ELSE <<>>

Undecayed(match) ==
    /\ match.distance_multiplier = One
    /\ match.deterministic_score = match.base_score

C40_ScoredAtFullWeight ==
    \A i \in DOMAIN ScoredMatches :
        /\ Undecayed(ScoredMatches[i])
        /\ AtLeast(ScoredMatches[i].base_score, StatedMinScore)

\* the same with the threshold as the filter applies it, int(minScore)
C40_ScoredAtFullWeightAboveIntMinScore ==
    \A i \in DOMAIN ScoredMatches :
        /\ Undecayed(ScoredMatches[i])
        /\ ScoredMatches[i].base_score >= int(StatedMinScore)

==============================================================================
